---- MODULE Spec2Model ----
(***************************************************************************)
(* Model of the Param resolver of scripts/extract_character_details.py.    *)
(*                                                                         *)
(* Python values are tagged records; a Python str is a sequence of         *)
(* one-character strings, so that split(","), slicing, str(int) and        *)
(* int(str) are computed character by character as the code does.          *)
(* A Python float is an exact rational num/den in lowest terms (den > 0).  *)
(***************************************************************************)
EXTENDS Integers, Sequences, FiniteSets, TLC

VARIABLES HIT_DAMAGE_DATA, SKILL_DATA, SKILL_LANG, BUFF_VALUE_DATA,
          EFFECT_VALUE_DATA, EFFECT_DATA, ONCE_ADD_ATTR_VALUE_DATA,
          ENUM_DESC_DATA, UITEXT_LANG, HITDAMAGE_TO_SKILLS, call, ret,
          JSON_CACHE, files, reads, kept

tables == <<HIT_DAMAGE_DATA, SKILL_DATA, SKILL_LANG, BUFF_VALUE_DATA,
            EFFECT_VALUE_DATA, EFFECT_DATA, ONCE_ADD_ATTR_VALUE_DATA,
            ENUM_DESC_DATA, UITEXT_LANG>>

\* JSON_CACHE is _JSON_CACHE; files is the file system load_json reads (the
\* state of the file behind each path); reads counts, per path, the times
\* json.load was run on the opened file; kept is a result of resolve_param
\* a caller has stored
vars == <<tables, HITDAMAGE_TO_SKILLS, call, ret, JSON_CACHE, files, reads, kept>>

(***************************************************************************)
(* Bounds of the model.                                                    *)
(***************************************************************************)
\* levels 1..MaxLevelKey may be present in a generated level family
MaxLevelKey == 3
\* context_max_level / max_level arguments range over None and 0..MaxCap
MaxCap == 3
\* SkillPercentAmend lists have up to MaxValues elements
MaxValues == 3
\* load_json is followed until a file has been parsed MaxReads times
MaxReads == 2
\* HitDamage.json holds up to MaxEntries entries
MaxEntries == 3
\* --top-samples is at most MaxSamples
MaxSamples == 2
\* an event has up to MaxOptions options of up to MaxLines lines
MaxOptions == 3
MaxLines == 2
\* the Attribute table holds up to MaxAttributes entries
MaxAttributes == 3

(***************************************************************************)
(* Python values.                                                          *)
(***************************************************************************)
None == [t |-> "None"]
VInt(n) == [t |-> "int", i |-> n]
VStr(s) == [t |-> "str", s |-> s]
VBool(b) == [t |-> "bool", b |-> b]
VList(l) == [t |-> "list", l |-> l]
VDict(d) == [t |-> "dict", d |-> d]

RECURSIVE GCD(_, _)
GCD(a, b) == IF b = 0 THEN a ELSE GCD(b, a % b)

Abs(n) == IF n < 0 THEN -n ELSE n

\* the float n/d, in lowest terms
VFloat(n, d) ==
    LET g == GCD(Abs(n), Abs(d))
        sgn == IF d < 0 THEN -1 ELSE 1
    IN [t |-> "float", num |-> sgn * (n \div g), den |-> sgn * (d \div g)]

\* Python truthiness (bool(v))
Truthy(v) ==
    CASE v.t = "None" -> FALSE
      [] v.t = "int" -> v.i # 0
      [] v.t = "str" -> Len(v.s) > 0
      [] v.t = "bool" -> v.b
      [] v.t = "float" -> v.num # 0
      [] v.t = "list" -> Len(v.l) > 0
      [] v.t = "dict" -> DOMAIN v.d # {}

\* a or b
PyOr(a, b) == IF Truthy(a) THEN a ELSE b

\* dict.get(key) on a table or a record: the value, or None when the key is absent
DictGet(d, key) == IF key \in DOMAIN d THEN d[key] ELSE None

\* dict.get(key) on a table of records: the record as a Python dict, or None
TableGet(tbl, key) == IF key \in DOMAIN tbl THEN VDict(tbl[key]) ELSE None

(***************************************************************************)
(* Strings: str(int), int(str), float(str), split, join.                   *)
(***************************************************************************)
Digits == <<"0", "1", "2", "3", "4", "5", "6", "7", "8", "9">>

DigitChar(d) == Digits[d + 1]

IsDigit(c) == \E d \in 1..10 : Digits[d] = c

DigitVal(c) == (CHOOSE d \in 1..10 : Digits[d] = c) - 1

RECURSIVE NatToStr(_)
NatToStr(n) ==
    IF n < 10 THEN <<DigitChar(n)>>
    ELSE Append(NatToStr(n \div 10), DigitChar(n % 10))

\* str(n) of an int
IntToStr(n) == IF n < 0 THEN <<"-">> \o NatToStr(-n) ELSE NatToStr(n)

RECURSIVE DigitsToNat(_)
DigitsToNat(s) ==
    IF Len(s) = 0 THEN 0
    ELSE 10 * DigitsToNat(SubSeq(s, 1, Len(s) - 1)) + DigitVal(s[Len(s)])

AllDigits(s) == Len(s) > 0 /\ \A k \in 1..Len(s) : IsDigit(s[k])

\* int(s) / float(s) of a str holding a decimal integer literal: an optional
\* sign and one or more digits. Every other str of the model is one that
\* Python rejects with ValueError too.
ParseInt(s) ==
    IF Len(s) > 0 /\ s[1] \in {"-", "+"}
    THEN IF AllDigits(Tail(s))
         THEN [ok |-> TRUE,
               i |-> IF s[1] = "-" THEN -DigitsToNat(Tail(s)) ELSE DigitsToNat(Tail(s))]
         ELSE [ok |-> FALSE, i |-> 0]
    ELSE IF AllDigits(s) THEN [ok |-> TRUE, i |-> DigitsToNat(s)]
         ELSE [ok |-> FALSE, i |-> 0]

\* str(v) for the values that are formatted into keys
py_str(v) ==
    CASE v.t = "int" -> IntToStr(v.i)
      [] v.t = "str" -> v.s
      [] v.t = "bool" -> IF v.b THEN <<"T", "r", "u", "e">> ELSE <<"F", "a", "l", "s", "e">>
      [] v.t = "None" -> <<"N", "o", "n", "e">>

\* float(v): exc is "" on success, else the exception raised
py_float(v) ==
    CASE v.t = "int" -> [exc |-> "", f |-> VFloat(v.i, 1)]
      [] v.t = "float" -> [exc |-> "", f |-> v]
      [] v.t = "bool" -> [exc |-> "", f |-> VFloat(IF v.b THEN 1 ELSE 0, 1)]
      [] v.t = "str" ->
           LET p == ParseInt(v.s)
           IN IF p.ok THEN [exc |-> "", f |-> VFloat(p.i, 1)]
              ELSE [exc |-> "ValueError", f |-> None]
      [] OTHER -> [exc |-> "TypeError", f |-> None]

\* int(v): exc is "" on success, else the exception raised
py_int(v) ==
    CASE v.t = "int" -> [exc |-> "", i |-> v.i]
      [] v.t = "float" -> [exc |-> "", i |-> IF v.num < 0 THEN -((-v.num) \div v.den)
                                             ELSE v.num \div v.den]
      [] v.t = "bool" -> [exc |-> "", i |-> IF v.b THEN 1 ELSE 0]
      [] v.t = "str" ->
           LET p == ParseInt(v.s)
           IN IF p.ok THEN [exc |-> "", i |-> p.i] ELSE [exc |-> "ValueError", i |-> 0]
      [] OTHER -> [exc |-> "TypeError", i |-> 0]

\* index of the first "," of s at or after position k, or 0
RECURSIVE FindComma(_, _)
FindComma(s, k) ==
    IF k > Len(s) THEN 0
    ELSE IF s[k] = "," THEN k ELSE FindComma(s, k + 1)

\* s.split(",")
RECURSIVE Split(_)
Split(s) ==
    LET c == FindComma(s, 1)
    IN IF c = 0 THEN <<s>>
       ELSE <<SubSeq(s, 1, c - 1)>> \o Split(SubSeq(s, c + 1, Len(s)))

\* ",".join(toks)
RECURSIVE Join(_)
Join(toks) ==
    IF Len(toks) = 0 THEN <<>>
    ELSE IF Len(toks) = 1 THEN toks[1]
    ELSE toks[1] \o <<",">> \o Join(Tail(toks))

\* s.startswith(p)
StartsWith(s, p) == Len(s) >= Len(p) /\ SubSeq(s, 1, Len(p)) = p

(***************************************************************************)
(* String literals of the source.                                          *)
(***************************************************************************)
S_HitDamage == <<"H", "i", "t", "D", "a", "m", "a", "g", "e">>
S_DamageNum == <<"D", "a", "m", "a", "g", "e", "N", "u", "m">>
S_BuffValue == <<"B", "u", "f", "f", "V", "a", "l", "u", "e">>
S_EffectValue == <<"E", "f", "f", "e", "c", "t", "V", "a", "l", "u", "e">>
S_Effect == <<"E", "f", "f", "e", "c", "t">>
S_OnceAdditionalAttributeValue == <<"O", "n", "c", "e", "A", "d", "d", "i", "t", "i", "o", "n", "a", "l", "A", "t", "t", "r", "i", "b", "u", "t", "e", "V", "a", "l", "u", "e">>
S_OnceAdditionalAttribute == <<"O", "n", "c", "e", "A", "d", "d", "i", "t", "i", "o", "n", "a", "l", "A", "t", "t", "r", "i", "b", "u", "t", "e">>
S_NoLevel == <<"N", "o", "L", "e", "v", "e", "l">>
S_LevelUp == <<"L", "e", "v", "e", "l", "U", "p">>
S_10K == <<"1", "0", "K">>
S_HdPct == <<"H", "d", "P", "c", "t">>
S_10KHdPct == <<"1", "0", "K", "H", "d", "P", "c", "t">>
S_Fixed == <<"F", "i", "x", "e", "d">>
S_Enum == <<"E", "n", "u", "m">>
S_ELT == <<"E", "L", "T">>
S_SkillDot == <<"S", "k", "i", "l", "l", ".">>
S_UITextDot == <<"U", "I", "T", "e", "x", "t", ".">>
S_Dot1 == <<".", "1">>
S_SkillPercentAmend == <<"S", "k", "i", "l", "l", "P", "e", "r", "c", "e", "n", "t", "A", "m", "e", "n", "d">>
S_levelTypeData == <<"l", "e", "v", "e", "l", "T", "y", "p", "e", "D", "a", "t", "a">>
S_LevelTypeData == <<"L", "e", "v", "e", "l", "T", "y", "p", "e", "D", "a", "t", "a">>
S_LevelType == <<"L", "e", "v", "e", "l", "T", "y", "p", "e">>
S_LevelData == <<"L", "e", "v", "e", "l", "D", "a", "t", "a">>
S_LevelId == <<"L", "e", "v", "e", "l", "I", "d">>
S_MaxLevel == <<"M", "a", "x", "L", "e", "v", "e", "l">>
S_Param == <<"P", "a", "r", "a", "m">>
S_EnumName == <<"E", "n", "u", "m", "N", "a", "m", "e">>
S_Value == <<"V", "a", "l", "u", "e">>
S_Key == <<"K", "e", "y">>
S_HitDamageCommaDamageNumComma == <<"H", "i", "t", "D", "a", "m", "a", "g", "e", ",", "D", "a", "m", "a", "g", "e", "N", "u", "m", ",">>

(***************************************************************************)
(* apply_numeric_transform                                                 *)
(***************************************************************************)
\* a float divided / multiplied by a positive integer
FloatDiv(f, k) == VFloat(f.num, f.den * k)
FloatMul(f, k) == VFloat(f.num * k, f.den)

\* an exception that leaves the function: the call raises instead of returning
Raised(exc) == [raised |-> exc]

IsRaised(r) == "raised" \in DOMAIN r

(***************************************************************************)
(* load_json                                                               *)
(***************************************************************************)
\* faulty variant: no `if path not in _JSON_CACHE` test, the file is opened and
\* parsed on every call and the entry assigned again
load_json_reload(path) ==
    CASE files[path].kind = "missing" ->
           [ret |-> Raised("FileNotFoundError"), cache |-> JSON_CACHE, parsed |-> FALSE]
      [] files[path].kind = "malformed" ->
           [ret |-> Raised("JSONDecodeError"), cache |-> JSON_CACHE, parsed |-> TRUE]
      [] OTHER ->
           [ret |-> [value |-> files[path].content],
            cache |-> [ q \in DOMAIN JSON_CACHE \cup {path} |->
                          IF q = path THEN files[path].content ELSE JSON_CACHE[q] ],
            parsed |-> TRUE]

\* faulty variant: a failed open or parse is swallowed and an empty object cached
load_json_swallow(path) ==
    IF path \in DOMAIN JSON_CACHE
    THEN [ret |-> [value |-> JSON_CACHE[path]], cache |-> JSON_CACHE, parsed |-> FALSE]
    ELSE LET content == IF files[path].kind = "json" THEN files[path].content ELSE <<>>
         IN [ret |-> [value |-> content],
             cache |-> [ q \in DOMAIN JSON_CACHE \cup {path} |->
                           IF q = path THEN content ELSE JSON_CACHE[q] ],
             parsed |-> files[path].kind # "missing"]

\* load_json(path): ret is the returned object or the exception raised, cache
\* is _JSON_CACHE after the call, parsed tells whether the file was opened and
\* handed to json.load. path.open raises when the file is missing, json.load
\* when it is not well-formed, both before the assignment to the cache
load_json(path) ==
    IF path \in DOMAIN JSON_CACHE
    THEN [ret |-> [value |-> JSON_CACHE[path]], cache |-> JSON_CACHE, parsed |-> FALSE]
    ELSE CASE files[path].kind = "missing" ->
                [ret |-> Raised("FileNotFoundError"), cache |-> JSON_CACHE, parsed |-> FALSE]
           [] files[path].kind = "malformed" ->
                [ret |-> Raised("JSONDecodeError"), cache |-> JSON_CACHE, parsed |-> TRUE]
           [] OTHER ->
                [ret |-> [value |-> files[path].content],
                 cache |-> [ q \in DOMAIN JSON_CACHE \cup {path} |->
                               IF q = path THEN files[path].content ELSE JSON_CACHE[q] ],
                 parsed |-> TRUE]

\* the transforms whose branch calls float(raw_value)
FloatTransforms == {VStr(S_10K), VStr(S_HdPct), VStr(S_10KHdPct), VStr(S_Fixed), None}

\* faulty variant: the scales of HdPct and 10KHdPct exchanged, and a failed
\* conversion replaced by zero
apply_numeric_transform_swapped(raw_value, transform) ==
    LET fl == py_float(raw_value)
        converted ==
            IF transform \notin FloatTransforms THEN None
            ELSE IF fl.exc # "" THEN VFloat(0, 1)
            ELSE IF transform = VStr(S_10K) THEN FloatDiv(fl.f, 10000)
            ELSE IF transform = VStr(S_HdPct) THEN FloatDiv(fl.f, 100)
            ELSE IF transform = VStr(S_10KHdPct) THEN FloatMul(fl.f, 100)
            ELSE fl.f
    IN [Raw |-> raw_value, Converted |-> converted, Transform |-> transform]

\* faulty variant: a transform that is none of the known ones converts like Fixed
apply_numeric_transform_else_fixed(raw_value, transform) ==
    LET fl == py_float(raw_value)
        converted ==
            IF fl.exc \in {"TypeError", "ValueError"} THEN None
            ELSE IF transform = VStr(S_10K) THEN FloatDiv(fl.f, 10000)
            ELSE IF transform = VStr(S_HdPct) THEN FloatMul(fl.f, 100)
            ELSE IF transform = VStr(S_10KHdPct) THEN FloatDiv(fl.f, 100)
            ELSE fl.f
    IN IF fl.exc \notin {"", "TypeError", "ValueError"}
       THEN Raised(fl.exc)
       ELSE [Raw |-> raw_value, Converted |-> converted, Transform |-> transform]

apply_numeric_transform(raw_value, transform) ==
    LET fl == py_float(raw_value)
        \* float() runs inside the try only in the branches of the known transforms
        tried == transform \in FloatTransforms
        converted ==
            IF ~tried \/ fl.exc \in {"TypeError", "ValueError"} THEN None
            ELSE IF transform = VStr(S_10K) THEN FloatDiv(fl.f, 10000)
            ELSE IF transform = VStr(S_HdPct) THEN FloatMul(fl.f, 100)
            ELSE IF transform = VStr(S_10KHdPct) THEN FloatDiv(fl.f, 100)
            ELSE fl.f
    IN IF tried /\ fl.exc \notin {"", "TypeError", "ValueError"}
       THEN Raised(fl.exc)
       ELSE [Raw |-> raw_value, Converted |-> converted, Transform |-> transform]

(***************************************************************************)
(* build_level_entries                                                     *)
(***************************************************************************)
\* faulty variant: the cap is tested before the row of the level is appended
RECURSIVE LevelLoop_cap_first(_, _, _, _, _, _, _)
LevelLoop_cap_first(prefix, suffix, dataset, max_level, level, out, probes) ==
    LET level_id == prefix \o IntToStr(level) \o suffix
        row == TableGet(dataset, level_id)
        probed == Append(probes, level_id)
    IN IF max_level # None /\ level > max_level.i THEN [out |-> out, probes |-> probes]
       ELSE IF row = None THEN [out |-> out, probes |-> probed]
       ELSE LevelLoop_cap_first(prefix, suffix, dataset, max_level, level + 1,
                                Append(out, <<level, row>>), probed)

\* the loop of build_level_entries from `level` on; out and probes accumulate
\* the (level, row) pairs and the keys looked up in the dataset
RECURSIVE LevelLoop(_, _, _, _, _, _, _)
LevelLoop(prefix, suffix, dataset, max_level, level, out, probes) ==
    LET level_id == prefix \o IntToStr(level) \o suffix
        row == TableGet(dataset, level_id)
        probed == Append(probes, level_id)
    IN IF row = None THEN [out |-> out, probes |-> probed]
       ELSE LET out2 == Append(out, <<level, row>>)
            IN IF max_level # None /\ level + 1 > max_level.i
               THEN [out |-> out2, probes |-> probed]
               ELSE LevelLoop(prefix, suffix, dataset, max_level, level + 1, out2, probed)

\* faulty variant: the prefix drops the last character only (s[:-1])
build_level_entries_prefix1(base_id, dataset, max_level) ==
    LET s == py_str(base_id)
    IN IF Len(s) < 3 THEN [out |-> <<>>, probes |-> <<>>]
       ELSE LevelLoop(SubSeq(s, 1, Len(s) - 1), <<s[Len(s)]>>, dataset, max_level,
                      1, <<>>, <<>>)

\* faulty variant: the guard is len(s) < 2
build_level_entries_guard2(base_id, dataset, max_level) ==
    LET s == py_str(base_id)
    IN IF Len(s) < 2 THEN [out |-> <<>>, probes |-> <<>>]
       ELSE LevelLoop(SubSeq(s, 1, Len(s) - 2), <<s[Len(s)]>>, dataset, max_level,
                      1, <<>>, <<>>)

\* build_level_entries(base_id, dataset, max_level), with the dataset keys it probed
build_level_entries_probed(base_id, dataset, max_level) ==
    LET s == py_str(base_id)
    IN IF Len(s) < 3 THEN [out |-> <<>>, probes |-> <<>>]
       ELSE LevelLoop(SubSeq(s, 1, Len(s) - 2), <<s[Len(s)]>>, dataset, max_level,
                      1, <<>>, <<>>)

build_level_entries(base_id, dataset, max_level) ==
    build_level_entries_probed(base_id, dataset, max_level).out

(***************************************************************************)
(* Python == on values: numbers compare by value across int, bool, float.  *)
(***************************************************************************)
IsNumber(v) == v.t \in {"int", "bool", "float"}

PyEq(a, b) ==
    IF IsNumber(a) /\ IsNumber(b)
    THEN py_float(a).f = py_float(b).f
    ELSE a = b

(***************************************************************************)
(* resolve_enum_text                                                       *)
(***************************************************************************)
\* faulty variant: the scan ends at the first entry of the family and value,
\* also when that entry has no Key
RECURSIVE EnumScan_first_entry(_, _, _)
EnumScan_first_entry(enum_name, value_int, k) ==
    IF k > Len(ENUM_DESC_DATA) THEN None
    ELSE LET entry == ENUM_DESC_DATA[k]
             key == DictGet(entry, S_Key)
         IN IF /\ PyEq(DictGet(entry, S_EnumName), enum_name)
               /\ PyEq(DictGet(entry, S_Value), VInt(value_int))
            THEN IF Truthy(key)
                 THEN DictGet(UITEXT_LANG, S_UITextDot \o py_str(key) \o S_Dot1)
                 ELSE None
            ELSE EnumScan_first_entry(enum_name, value_int, k + 1)

\* the scan of ENUM_DESC_DATA.values() from position k on
RECURSIVE EnumScan(_, _, _)
EnumScan(enum_name, value_int, k) ==
    IF k > Len(ENUM_DESC_DATA) THEN None
    ELSE LET entry == ENUM_DESC_DATA[k]
             key == DictGet(entry, S_Key)
         IN IF /\ PyEq(DictGet(entry, S_EnumName), enum_name)
               /\ PyEq(DictGet(entry, S_Value), VInt(value_int))
               /\ Truthy(key)
            THEN DictGet(UITEXT_LANG, S_UITextDot \o py_str(key) \o S_Dot1)
            ELSE EnumScan(enum_name, value_int, k + 1)

resolve_enum_text(enum_name, raw_value) ==
    LET c == py_int(raw_value)
    IN IF c.exc # "" THEN None ELSE EnumScan(enum_name, c.i, 1)

(***************************************************************************)
(* HitDamage reverse index                                                 *)
(***************************************************************************)
\* range(1, 16): Param1 .. Param15
NumParams == 15

\* faulty variant: the scan is range(1, 17), Param16 included
SkillHitDamageRefs_param16(skill) ==
    { Split(DictGet(skill, S_Param \o IntToStr(i)).s)[3] :
        i \in { j \in 1..(NumParams + 1) :
                  LET v == DictGet(skill, S_Param \o IntToStr(j))
                  IN /\ v.t = "str"
                     /\ StartsWith(v.s, S_HitDamageCommaDamageNumComma)
                     /\ Len(Split(v.s)) >= 3 } }

\* the HitDamage ids a skill record references through Param1..Param15
SkillHitDamageRefs(skill) ==
    { Split(DictGet(skill, S_Param \o IntToStr(i)).s)[3] :
        i \in { j \in 1..NumParams :
                  LET v == DictGet(skill, S_Param \o IntToStr(j))
                  IN /\ v.t = "str"
                     /\ StartsWith(v.s, S_HitDamageCommaDamageNumComma)
                     /\ Len(Split(v.s)) >= 3 } }

\* HITDAMAGE_TO_SKILLS after _build_hitdamage_reverse_index() has run over skill_data
build_hitdamage_reverse_index(skill_data) ==
    LET keyed == { sid_str \in DOMAIN skill_data : ParseInt(sid_str).ok }
        hds == UNION { SkillHitDamageRefs(skill_data[sid_str]) : sid_str \in keyed }
    IN [ hd_id \in hds |->
           { ParseInt(sid_str).i :
               sid_str \in { k \in keyed : hd_id \in SkillHitDamageRefs(skill_data[k]) } } ]

\* sorted(set_of_ints)
RECURSIVE Sorted(_)
Sorted(S) ==
    IF S = {} THEN <<>>
    ELSE LET m == CHOOSE x \in S : \A y \in S : x <= y
         IN <<m>> \o Sorted(S \ {m})

\* [x for x in seq if Test(x)]
RECURSIVE FilterMaxLevel(_, _)
FilterMaxLevel(seq, values_count) ==
    IF Len(seq) = 0 THEN <<>>
    ELSE LET sid == Head(seq)
             sk == TableGet(SKILL_DATA, IntToStr(sid))
             ml == IF sk = None THEN None ELSE DictGet(sk.d, S_MaxLevel)
             rest == FilterMaxLevel(Tail(seq), values_count)
         IN IF PyEq(ml, VInt(values_count)) THEN <<sid>> \o rest ELSE rest

\* faulty variant: the lookup is HITDAMAGE_TO_SKILLS.setdefault(identifier, set())
index_after_setdefault(identifier) ==
    IF identifier \in DOMAIN HITDAMAGE_TO_SKILLS THEN HITDAMAGE_TO_SKILLS
    ELSE [ q \in DOMAIN HITDAMAGE_TO_SKILLS \cup {identifier} |->
             IF q = identifier THEN {} ELSE HITDAMAGE_TO_SKILLS[q] ]

\* faulty variant: the lookup is HITDAMAGE_TO_SKILLS.pop(identifier, set())
index_after_pop(identifier) ==
    [ q \in DOMAIN HITDAMAGE_TO_SKILLS \ {identifier} |-> HITDAMAGE_TO_SKILLS[q] ]

\* the reverse index after HITDAMAGE_TO_SKILLS.get(identifier, set()): a get
\* with a default inserts nothing, and sorted() copies the set it is given
index_after_get(identifier) == HITDAMAGE_TO_SKILLS

\* faulty variant: the single-candidate case is not tested
infer_bind_no_single(identifier, values_count) ==
    LET candidates == Sorted(IF identifier \in DOMAIN HITDAMAGE_TO_SKILLS
                             THEN HITDAMAGE_TO_SKILLS[identifier] ELSE {})
        matched == FilterMaxLevel(candidates, values_count)
    IN IF Len(candidates) = 0
       THEN [sid |-> None, candidates |-> <<>>, method |-> "NoLevelData_NoReverseRef"]
       ELSE IF Len(matched) = 1
       THEN [sid |-> VInt(matched[1]), candidates |-> candidates,
             method |-> "ReverseRef_LengthMatch"]
       ELSE [sid |-> VInt(candidates[1]), candidates |-> candidates,
             method |-> "ReverseRef_Ambiguous_TakeFirst"]

\* faulty variant: the first length match is taken when several candidates match
infer_bind_first_match(identifier, values_count) ==
    LET candidates == Sorted(IF identifier \in DOMAIN HITDAMAGE_TO_SKILLS
                             THEN HITDAMAGE_TO_SKILLS[identifier] ELSE {})
        matched == FilterMaxLevel(candidates, values_count)
    IN IF Len(candidates) = 0
       THEN [sid |-> None, candidates |-> <<>>, method |-> "NoLevelData_NoReverseRef"]
       ELSE IF Len(candidates) = 1
       THEN [sid |-> VInt(candidates[1]), candidates |-> candidates,
             method |-> "ReverseRef_Single"]
       ELSE IF Len(matched) >= 1
       THEN [sid |-> VInt(matched[1]), candidates |-> candidates,
             method |-> "ReverseRef_LengthMatch"]
       ELSE [sid |-> VInt(candidates[1]), candidates |-> candidates,
             method |-> "ReverseRef_Ambiguous_TakeFirst"]

\* faulty variant: on a length match the list returned is `matched`, not `candidates`
infer_bind_matched_list(identifier, values_count) ==
    LET candidates == Sorted(IF identifier \in DOMAIN HITDAMAGE_TO_SKILLS
                             THEN HITDAMAGE_TO_SKILLS[identifier] ELSE {})
        matched == FilterMaxLevel(candidates, values_count)
    IN IF Len(candidates) = 0
       THEN [sid |-> None, candidates |-> <<>>, method |-> "NoLevelData_NoReverseRef"]
       ELSE IF Len(candidates) = 1
       THEN [sid |-> VInt(candidates[1]), candidates |-> candidates,
             method |-> "ReverseRef_Single"]
       ELSE IF Len(matched) = 1
       THEN [sid |-> VInt(matched[1]), candidates |-> matched,
             method |-> "ReverseRef_LengthMatch"]
       ELSE [sid |-> VInt(candidates[1]), candidates |-> candidates,
             method |-> "ReverseRef_Ambiguous_TakeFirst"]

infer_bind_skill_for_hitdamage(identifier, values_count) ==
    LET candidates == Sorted(IF identifier \in DOMAIN HITDAMAGE_TO_SKILLS
                             THEN HITDAMAGE_TO_SKILLS[identifier] ELSE {})
        matched == FilterMaxLevel(candidates, values_count)
    IN IF Len(candidates) = 0
       THEN [sid |-> None, candidates |-> <<>>, method |-> "NoLevelData_NoReverseRef"]
       ELSE IF Len(candidates) = 1
       THEN [sid |-> VInt(candidates[1]), candidates |-> candidates,
             method |-> "ReverseRef_Single"]
       ELSE IF Len(matched) = 1
       THEN [sid |-> VInt(matched[1]), candidates |-> candidates,
             method |-> "ReverseRef_LengthMatch"]
       ELSE [sid |-> VInt(candidates[1]), candidates |-> candidates,
             method |-> "ReverseRef_Ambiguous_TakeFirst"]

(***************************************************************************)
(* resolve_param                                                           *)
(***************************************************************************)
\* faulty variant: enumerate(raw_list) without start=1
HitDamageValues_zero_based(raw_list) ==
    [ idx \in 1..Len(raw_list) |->
        LET fl == py_float(raw_list[idx])
        IN [Level |-> idx - 1, Raw |-> raw_list[idx],
            Converted |-> IF fl.exc = "" THEN FloatDiv(fl.f, 10000) ELSE None] ]

\* the Values list of the HitDamage branch: enumerate(raw_list, start=1)
HitDamageValues(raw_list) ==
    [ idx \in 1..Len(raw_list) |->
        LET fl == py_float(raw_list[idx])
        IN [Level |-> idx, Raw |-> raw_list[idx],
            Converted |-> IF fl.exc = "" THEN FloatDiv(fl.f, 10000) ELSE None] ]

\* faulty variant: the method returned by the reverse lookup is dropped when the entry has
\* no explicit linkage and no skill is inferred
HitDamageBind_method_unset(entry, identifier, raw_list) ==
    LET explicit_level_data == PyOr(DictGet(entry, S_LevelData), DictGet(entry, S_LevelId))
        method0 == IF explicit_level_data # None THEN "ExplicitLevelData" ELSE ""
        bd == IF explicit_level_data # None
              THEN TableGet(SKILL_DATA, py_str(explicit_level_data)) ELSE None
        inf == infer_bind_skill_for_hitdamage(identifier, Len(raw_list))
        inferred == [bound_skill |-> TableGet(SKILL_DATA, IntToStr(inf.sid.i)),
                     bound_skill_name |->
                         DictGet(SKILL_LANG, S_SkillDot \o IntToStr(inf.sid.i) \o S_Dot1),
                     explicit_level_data |-> inf.sid,
                     candidates |-> inf.candidates,
                     method |-> inf.method]
    IN IF explicit_level_data # None
       THEN IF Truthy(bd)
            THEN [bound_skill |-> bd,
                  bound_skill_name |->
                      DictGet(SKILL_LANG, S_SkillDot \o py_str(explicit_level_data) \o S_Dot1),
                  explicit_level_data |-> explicit_level_data,
                  candidates |-> <<>>,
                  method |-> method0]
            ELSE IF inf.sid # None
                 THEN [inferred EXCEPT !.method = inf.method \o "_FallbackFromExplicitNonSkill"]
                 ELSE [bound_skill |-> None, bound_skill_name |-> None,
                       explicit_level_data |-> explicit_level_data,
                       candidates |-> inf.candidates, method |-> inf.method]
       ELSE IF inf.sid # None
            THEN inferred
            ELSE [bound_skill |-> None, bound_skill_name |-> None,
                  explicit_level_data |-> explicit_level_data,
                  candidates |-> inf.candidates, method |-> method0]

\* faulty variant: the reverse index is consulted before the explicit linkage
HitDamageBind_reverse_first(entry, identifier, raw_list) ==
    LET explicit_level_data == PyOr(DictGet(entry, S_LevelData), DictGet(entry, S_LevelId))
        method0 == IF explicit_level_data # None THEN "ExplicitLevelData" ELSE ""
        bd == IF explicit_level_data # None
              THEN TableGet(SKILL_DATA, py_str(explicit_level_data)) ELSE None
        inf == infer_bind_skill_for_hitdamage(identifier, Len(raw_list))
        inferred == [bound_skill |-> TableGet(SKILL_DATA, IntToStr(inf.sid.i)),
                     bound_skill_name |->
                         DictGet(SKILL_LANG, S_SkillDot \o IntToStr(inf.sid.i) \o S_Dot1),
                     explicit_level_data |-> inf.sid,
                     candidates |-> inf.candidates,
                     method |-> inf.method]
    IN IF inf.sid # None THEN inferred
       ELSE IF explicit_level_data # None
       THEN IF Truthy(bd)
            THEN [bound_skill |-> bd,
                  bound_skill_name |->
                      DictGet(SKILL_LANG, S_SkillDot \o py_str(explicit_level_data) \o S_Dot1),
                  explicit_level_data |-> explicit_level_data,
                  candidates |-> <<>>,
                  method |-> method0]
            ELSE IF inf.sid # None
                 THEN [inferred EXCEPT !.method = inf.method \o "_FallbackFromExplicitNonSkill"]
                 ELSE [bound_skill |-> None, bound_skill_name |-> None,
                       explicit_level_data |-> explicit_level_data,
                       candidates |-> inf.candidates, method |-> inf.method]
       ELSE IF inf.sid # None
            THEN inferred
            ELSE [bound_skill |-> None, bound_skill_name |-> None,
                  explicit_level_data |-> explicit_level_data,
                  candidates |-> inf.candidates, method |-> inf.method]

\* faulty variant: on the fallback explicit_level_data is not replaced by the inferred id
HitDamageBind_keep_explicit(entry, identifier, raw_list) ==
    LET explicit_level_data == PyOr(DictGet(entry, S_LevelData), DictGet(entry, S_LevelId))
        method0 == IF explicit_level_data # None THEN "ExplicitLevelData" ELSE ""
        bd == IF explicit_level_data # None
              THEN TableGet(SKILL_DATA, py_str(explicit_level_data)) ELSE None
        inf == infer_bind_skill_for_hitdamage(identifier, Len(raw_list))
        inferred == [bound_skill |-> TableGet(SKILL_DATA, IntToStr(inf.sid.i)),
                     bound_skill_name |->
                         DictGet(SKILL_LANG, S_SkillDot \o IntToStr(inf.sid.i) \o S_Dot1),
                     explicit_level_data |-> inf.sid,
                     candidates |-> inf.candidates,
                     method |-> inf.method]
    IN IF explicit_level_data # None
       THEN IF Truthy(bd)
            THEN [bound_skill |-> bd,
                  bound_skill_name |->
                      DictGet(SKILL_LANG, S_SkillDot \o py_str(explicit_level_data) \o S_Dot1),
                  explicit_level_data |-> explicit_level_data,
                  candidates |-> <<>>,
                  method |-> method0]
            ELSE IF inf.sid # None
                 THEN [inferred EXCEPT !.method = inf.method \o "_FallbackFromExplicitNonSkill",
                                       !.explicit_level_data = explicit_level_data]
                 ELSE [bound_skill |-> None, bound_skill_name |-> None,
                       explicit_level_data |-> explicit_level_data,
                       candidates |-> inf.candidates, method |-> inf.method]
       ELSE IF inf.sid # None
            THEN inferred
            ELSE [bound_skill |-> None, bound_skill_name |-> None,
                  explicit_level_data |-> explicit_level_data,
                  candidates |-> inf.candidates, method |-> inf.method]

\* the bind step of the HitDamage branch: what it leaves in bound_skill,
\* bound_skill_name, explicit_level_data, candidates and method
HitDamageBind(entry, identifier, raw_list) ==
    LET explicit_level_data == PyOr(DictGet(entry, S_LevelData), DictGet(entry, S_LevelId))
        method0 == IF explicit_level_data # None THEN "ExplicitLevelData" ELSE ""
        bd == IF explicit_level_data # None
              THEN TableGet(SKILL_DATA, py_str(explicit_level_data)) ELSE None
        inf == infer_bind_skill_for_hitdamage(identifier, Len(raw_list))
        inferred == [bound_skill |-> TableGet(SKILL_DATA, IntToStr(inf.sid.i)),
                     bound_skill_name |->
                         DictGet(SKILL_LANG, S_SkillDot \o IntToStr(inf.sid.i) \o S_Dot1),
                     explicit_level_data |-> inf.sid,
                     candidates |-> inf.candidates,
                     method |-> inf.method]
    IN IF explicit_level_data # None
       THEN IF Truthy(bd)
            THEN [bound_skill |-> bd,
                  bound_skill_name |->
                      DictGet(SKILL_LANG, S_SkillDot \o py_str(explicit_level_data) \o S_Dot1),
                  explicit_level_data |-> explicit_level_data,
                  candidates |-> <<>>,
                  method |-> method0]
            ELSE IF inf.sid # None
                 THEN [inferred EXCEPT !.method = inf.method \o "_FallbackFromExplicitNonSkill"]
                 ELSE [bound_skill |-> None, bound_skill_name |-> None,
                       explicit_level_data |-> explicit_level_data,
                       candidates |-> inf.candidates, method |-> inf.method]
       ELSE IF inf.sid # None
            THEN inferred
            ELSE [bound_skill |-> None, bound_skill_name |-> None,
                  explicit_level_data |-> explicit_level_data,
                  candidates |-> inf.candidates, method |-> inf.method]

\* the Resolved payload of the HitDamage branch for a truthy entry holding a list
HitDamageResolved(entry, identifier, raw_list) ==
    LET level_type_val == PyOr(PyOr(DictGet(entry, S_levelTypeData),
                                    DictGet(entry, S_LevelTypeData)),
                               DictGet(entry, S_LevelType))
        level_type_text == IF level_type_val # None
                           THEN resolve_enum_text(VStr(S_ELT), level_type_val) ELSE None
        b == HitDamageBind(entry, identifier, raw_list)
    IN [t |-> "dict",
        Field |-> "SkillPercentAmend",
        Values |-> HitDamageValues(raw_list),
        Bind |-> [LevelTypeRaw |-> level_type_val,
                  LevelTypeText |-> level_type_text,
                  LevelData |-> b.explicit_level_data,
                  SkillName |-> b.bound_skill_name,
                  SkillMaxLevel |-> IF Truthy(b.bound_skill)
                                    THEN DictGet(b.bound_skill.d, S_MaxLevel) ELSE None,
                  Candidates |-> b.candidates,
                  Method |-> IF b.method # "" THEN b.method ELSE "NoBindInfo",
                  ValueCount |-> Len(raw_list)]]

\* the values i takes at the tests `while i < len(parts)` of the field loop
\* entered with index i: i += 3 after Enum, i += 2 after another token, i += 1
\* on the last token
RECURSIVE FieldLoopIndexes(_, _)
FieldLoopIndexes(parts, i) ==
    IF ~(i < Len(parts)) THEN <<i>>
    ELSE <<i>> \o FieldLoopIndexes(parts,
                   IF i + 1 < Len(parts)
                   THEN (IF parts[i + 2] = S_Enum THEN i + 3 ELSE i + 2)
                   ELSE i + 1)

\* faulty variant: a field followed by Enum advances i by 2, not 3, so the enum
\* name is read again as a field
RECURSIVE FieldLoop_BuffValue_enum2(_, _, _, _)
FieldLoop_BuffValue_enum2(parts, entry, i, fields) ==
    IF ~(i < Len(parts)) THEN fields
    ELSE LET field == parts[i + 1]
             hasNext == i + 1 < Len(parts)
             nxt == IF hasNext THEN parts[i + 2] ELSE <<>>
             isEnum == hasNext /\ nxt = S_Enum
             transform_token == IF hasNext THEN VStr(nxt) ELSE None
             transform_arg == IF isEnum /\ i + 2 < Len(parts) THEN VStr(parts[i + 3]) ELSE None
             i2 == IF hasNext THEN i + 2 ELSE i + 1
             value == DictGet(entry, field)
             item == IF transform_token = VStr(S_Enum) /\ Truthy(transform_arg)
                     THEN [Field |-> field, EnumName |-> transform_arg, Raw |-> value,
                           Text |-> resolve_enum_text(transform_arg, value)]
                     ELSE [Field |-> field,
                           Value |-> apply_numeric_transform(value, transform_token)]
         IN FieldLoop_BuffValue_enum2(parts, entry, i2, Append(fields, item))

\* the field loop of the BuffValue branch from token index i (0-based) on
RECURSIVE FieldLoop_BuffValue(_, _, _, _)
FieldLoop_BuffValue(parts, entry, i, fields) ==
    IF ~(i < Len(parts)) THEN fields
    ELSE LET field == parts[i + 1]
             hasNext == i + 1 < Len(parts)
             nxt == IF hasNext THEN parts[i + 2] ELSE <<>>
             isEnum == hasNext /\ nxt = S_Enum
             transform_token == IF hasNext THEN VStr(nxt) ELSE None
             transform_arg == IF isEnum /\ i + 2 < Len(parts) THEN VStr(parts[i + 3]) ELSE None
             i2 == IF hasNext THEN (IF isEnum THEN i + 3 ELSE i + 2) ELSE i + 1
             value == DictGet(entry, field)
             item == IF transform_token = VStr(S_Enum) /\ Truthy(transform_arg)
                     THEN [Field |-> field, EnumName |-> transform_arg, Raw |-> value,
                           Text |-> resolve_enum_text(transform_arg, value)]
                     ELSE [Field |-> field,
                           Value |-> apply_numeric_transform(value, transform_token)]
         IN FieldLoop_BuffValue(parts, entry, i2, Append(fields, item))

\* faulty variant: after Enum the index advances by 2, the enum name is read
\* again as a field
RECURSIVE FieldLoop_EffectValue_enum2(_, _, _, _)
FieldLoop_EffectValue_enum2(parts, entry, i, fields) ==
    IF ~(i < Len(parts)) THEN fields
    ELSE LET field == parts[i + 1]
             hasNext == i + 1 < Len(parts)
             nxt == IF hasNext THEN parts[i + 2] ELSE <<>>
             isEnum == hasNext /\ nxt = S_Enum
             transform_token == IF hasNext THEN VStr(nxt) ELSE None
             transform_arg == IF isEnum /\ i + 2 < Len(parts) THEN VStr(parts[i + 3]) ELSE None
             i2 == IF hasNext THEN i + 2 ELSE i + 1
             value == DictGet(entry, field)
             item == IF transform_token = VStr(S_Enum) /\ Truthy(transform_arg)
                     THEN [Field |-> field, EnumName |-> transform_arg, Raw |-> value,
                           Text |-> resolve_enum_text(transform_arg, value)]
                     ELSE [Field |-> field,
                           Value |-> apply_numeric_transform(value, transform_token)]
         IN FieldLoop_EffectValue_enum2(parts, entry, i2, Append(fields, item))

\* the field loop of the EffectValue branch from token index i (0-based) on
RECURSIVE FieldLoop_EffectValue(_, _, _, _)
FieldLoop_EffectValue(parts, entry, i, fields) ==
    IF ~(i < Len(parts)) THEN fields
    ELSE LET field == parts[i + 1]
             hasNext == i + 1 < Len(parts)
             nxt == IF hasNext THEN parts[i + 2] ELSE <<>>
             isEnum == hasNext /\ nxt = S_Enum
             transform_token == IF hasNext THEN VStr(nxt) ELSE None
             transform_arg == IF isEnum /\ i + 2 < Len(parts) THEN VStr(parts[i + 3]) ELSE None
             i2 == IF hasNext THEN (IF isEnum THEN i + 3 ELSE i + 2) ELSE i + 1
             value == DictGet(entry, field)
             item == IF transform_token = VStr(S_Enum) /\ Truthy(transform_arg)
                     THEN [Field |-> field, EnumName |-> transform_arg, Raw |-> value,
                           Text |-> resolve_enum_text(transform_arg, value)]
                     ELSE [Field |-> field,
                           Value |-> apply_numeric_transform(value, transform_token)]
         IN FieldLoop_EffectValue(parts, entry, i2, Append(fields, item))

\* the field loop of the Effect,LevelUp branch from token index i (0-based) on
RECURSIVE FieldLoop_EffectLevelUp(_, _, _, _)
FieldLoop_EffectLevelUp(parts, entry, i, fields) ==
    IF ~(i < Len(parts)) THEN fields
    ELSE LET field == parts[i + 1]
             hasNext == i + 1 < Len(parts)
             nxt == IF hasNext THEN parts[i + 2] ELSE <<>>
             isEnum == hasNext /\ nxt = S_Enum
             transform_token == IF hasNext THEN VStr(nxt) ELSE None
             transform_arg == IF isEnum /\ i + 2 < Len(parts) THEN VStr(parts[i + 3]) ELSE None
             i2 == IF hasNext THEN (IF isEnum THEN i + 3 ELSE i + 2) ELSE i + 1
             value == DictGet(entry, field)
             item == IF transform_token = VStr(S_Enum) /\ Truthy(transform_arg)
                     THEN [Field |-> field, EnumName |-> transform_arg, Raw |-> value,
                           Text |-> resolve_enum_text(transform_arg, value)]
                     ELSE [Field |-> field,
                           Value |-> apply_numeric_transform(value, transform_token)]
         IN FieldLoop_EffectLevelUp(parts, entry, i2, Append(fields, item))

\* faulty variant: a diverged copy whose transform_token starts as "Fixed", not None
RECURSIVE FieldLoop_OnceAddValue_fixed(_, _, _, _)
FieldLoop_OnceAddValue_fixed(parts, entry, i, fields) ==
    IF ~(i < Len(parts)) THEN fields
    ELSE LET field == parts[i + 1]
             hasNext == i + 1 < Len(parts)
             nxt == IF hasNext THEN parts[i + 2] ELSE <<>>
             isEnum == hasNext /\ nxt = S_Enum
             transform_token == IF hasNext THEN VStr(nxt) ELSE VStr(S_Fixed)
             transform_arg == IF isEnum /\ i + 2 < Len(parts) THEN VStr(parts[i + 3]) ELSE None
             i2 == IF hasNext THEN (IF isEnum THEN i + 3 ELSE i + 2) ELSE i + 1
             value == DictGet(entry, field)
             item == IF transform_token = VStr(S_Enum) /\ Truthy(transform_arg)
                     THEN [Field |-> field, EnumName |-> transform_arg, Raw |-> value,
                           Text |-> resolve_enum_text(transform_arg, value)]
                     ELSE [Field |-> field,
                           Value |-> apply_numeric_transform(value, transform_token)]
         IN FieldLoop_OnceAddValue_fixed(parts, entry, i2, Append(fields, item))

\* the field loop of the OnceAdditionalAttributeValue,NoLevel branch from token index i (0-based) on
RECURSIVE FieldLoop_OnceAddValue(_, _, _, _)
FieldLoop_OnceAddValue(parts, entry, i, fields) ==
    IF ~(i < Len(parts)) THEN fields
    ELSE LET field == parts[i + 1]
             hasNext == i + 1 < Len(parts)
             nxt == IF hasNext THEN parts[i + 2] ELSE <<>>
             isEnum == hasNext /\ nxt = S_Enum
             transform_token == IF hasNext THEN VStr(nxt) ELSE None
             transform_arg == IF isEnum /\ i + 2 < Len(parts) THEN VStr(parts[i + 3]) ELSE None
             i2 == IF hasNext THEN (IF isEnum THEN i + 3 ELSE i + 2) ELSE i + 1
             value == DictGet(entry, field)
             item == IF transform_token = VStr(S_Enum) /\ Truthy(transform_arg)
                     THEN [Field |-> field, EnumName |-> transform_arg, Raw |-> value,
                           Text |-> resolve_enum_text(transform_arg, value)]
                     ELSE [Field |-> field,
                           Value |-> apply_numeric_transform(value, transform_token)]
         IN FieldLoop_OnceAddValue(parts, entry, i2, Append(fields, item))

\* the field loop of the OnceAdditionalAttribute,LevelUp branch from token index i (0-based) on
RECURSIVE FieldLoop_OnceAddLevelUp(_, _, _, _)
FieldLoop_OnceAddLevelUp(parts, entry, i, fields) ==
    IF ~(i < Len(parts)) THEN fields
    ELSE LET field == parts[i + 1]
             hasNext == i + 1 < Len(parts)
             nxt == IF hasNext THEN parts[i + 2] ELSE <<>>
             isEnum == hasNext /\ nxt = S_Enum
             transform_token == IF hasNext THEN VStr(nxt) ELSE None
             transform_arg == IF isEnum /\ i + 2 < Len(parts) THEN VStr(parts[i + 3]) ELSE None
             i2 == IF hasNext THEN (IF isEnum THEN i + 3 ELSE i + 2) ELSE i + 1
             value == DictGet(entry, field)
             item == IF transform_token = VStr(S_Enum) /\ Truthy(transform_arg)
                     THEN [Field |-> field, EnumName |-> transform_arg, Raw |-> value,
                           Text |-> resolve_enum_text(transform_arg, value)]
                     ELSE [Field |-> field,
                           Value |-> apply_numeric_transform(value, transform_token)]
         IN FieldLoop_OnceAddLevelUp(parts, entry, i2, Append(fields, item))

\* the initial result dict of resolve_param
ResultInit(param_str) ==
    [Source |-> param_str, Table |-> None, Mode |-> None, Resolved |-> None,
     FrameCount |-> None, DurationSeconds |-> None, RecastSeconds |-> None]

\* faulty variant: in the OnceAdditionalAttribute,LevelUp branch `fields = []` is
\* set once before the level loop, so each level's list continues the previous one
resolve_param_branches_shared_fields(parts, result2, context_max_level) ==
    LET table == parts[1]
        mode == parts[2]
        identifier == parts[3]
    IN IF table = S_HitDamage /\ mode = S_DamageNum
       THEN LET entry == TableGet(HIT_DAMAGE_DATA, identifier)
                raw_list == IF S_SkillPercentAmend \in DOMAIN entry.d
                            THEN entry.d[S_SkillPercentAmend] ELSE VList(<<>>)
            IN IF Truthy(entry) /\ raw_list.t = "list"
               THEN [result2 EXCEPT
                       !.Resolved = HitDamageResolved(entry.d, identifier, raw_list.l)]
               ELSE result2
       ELSE IF table = S_BuffValue
       THEN LET entry == TableGet(BUFF_VALUE_DATA, identifier)
            IN IF Truthy(entry)
               THEN [result2 EXCEPT !.Resolved =
                       [t |-> "dict", Entry |-> entry,
                        Fields |-> FieldLoop_BuffValue(parts, entry.d, 3, <<>>)]]
               ELSE result2
       ELSE IF table = S_EffectValue
       THEN LET entry == TableGet(EFFECT_VALUE_DATA, identifier)
            IN IF Truthy(entry)
               THEN [result2 EXCEPT !.Resolved =
                       [t |-> "dict", Entry |-> entry,
                        Fields |-> FieldLoop_EffectValue(parts, entry.d, 3, <<>>)]]
               ELSE result2
       ELSE IF table = S_Effect /\ mode = S_LevelUp
       THEN LET entries == build_level_entries(VStr(identifier), EFFECT_VALUE_DATA,
                                               context_max_level)
                levels_out == [ k \in 1..Len(entries) |->
                                  [Level |-> entries[k][1],
                                   Fields |-> FieldLoop_EffectLevelUp(
                                                  parts, entries[k][2].d, 3, <<>>)] ]
            IN [result2 EXCEPT !.Resolved =
                  [t |-> "dict", Effect |-> TableGet(EFFECT_DATA, identifier),
                   Levels |-> levels_out]]
       ELSE IF table = S_OnceAdditionalAttributeValue /\ mode = S_NoLevel
       THEN LET entry == TableGet(ONCE_ADD_ATTR_VALUE_DATA, identifier)
            IN IF Truthy(entry)
               THEN [result2 EXCEPT !.Resolved =
                       [t |-> "dict", Entry |-> entry,
                        Fields |-> FieldLoop_OnceAddValue(parts, entry.d, 3, <<>>)]]
               ELSE result2
       ELSE IF table = S_OnceAdditionalAttribute /\ mode = S_LevelUp
       THEN LET entries == build_level_entries(VStr(identifier),
                                               ONCE_ADD_ATTR_VALUE_DATA,
                                               context_max_level)
                acc[k \in 0..Len(entries)] ==
                    IF k = 0 THEN <<>>
                    ELSE FieldLoop_OnceAddLevelUp(parts, entries[k][2].d, 3, acc[k - 1])
                levels_out == [ k \in 1..Len(entries) |->
                                  [Level |-> entries[k][1], Fields |-> acc[k]] ]
            IN [result2 EXCEPT !.Resolved = [t |-> "dict", Levels |-> levels_out]]
       ELSE result2

\* faulty variant: the BuffValue branch reads BUFF_VALUE_DATA.get(identifier, {})
\* and has no `if entry:` guard
resolve_param_branches_unguarded(parts, result2, context_max_level) ==
    LET table == parts[1]
        mode == parts[2]
        identifier == parts[3]
    IN IF table = S_HitDamage /\ mode = S_DamageNum
       THEN LET entry == TableGet(HIT_DAMAGE_DATA, identifier)
                raw_list == IF S_SkillPercentAmend \in DOMAIN entry.d
                            THEN entry.d[S_SkillPercentAmend] ELSE VList(<<>>)
            IN IF Truthy(entry) /\ raw_list.t = "list"
               THEN [result2 EXCEPT
                       !.Resolved = HitDamageResolved(entry.d, identifier, raw_list.l)]
               ELSE result2
       ELSE IF table = S_BuffValue
       THEN LET got == TableGet(BUFF_VALUE_DATA, identifier)
                entry == IF got = None THEN VDict(<<>>) ELSE got
            IN [result2 EXCEPT !.Resolved =
                  [t |-> "dict", Entry |-> entry,
                   Fields |-> FieldLoop_BuffValue(parts, entry.d, 3, <<>>)]]
       ELSE IF table = S_EffectValue
       THEN LET entry == TableGet(EFFECT_VALUE_DATA, identifier)
            IN IF Truthy(entry)
               THEN [result2 EXCEPT !.Resolved =
                       [t |-> "dict", Entry |-> entry,
                        Fields |-> FieldLoop_EffectValue(parts, entry.d, 3, <<>>)]]
               ELSE result2
       ELSE IF table = S_Effect /\ mode = S_LevelUp
       THEN LET entries == build_level_entries(VStr(identifier), EFFECT_VALUE_DATA,
                                               context_max_level)
                levels_out == [ k \in 1..Len(entries) |->
                                  [Level |-> entries[k][1],
                                   Fields |-> FieldLoop_EffectLevelUp(
                                                  parts, entries[k][2].d, 3, <<>>)] ]
            IN [result2 EXCEPT !.Resolved =
                  [t |-> "dict", Effect |-> TableGet(EFFECT_DATA, identifier),
                   Levels |-> levels_out]]
       ELSE IF table = S_OnceAdditionalAttributeValue /\ mode = S_NoLevel
       THEN LET entry == TableGet(ONCE_ADD_ATTR_VALUE_DATA, identifier)
            IN IF Truthy(entry)
               THEN [result2 EXCEPT !.Resolved =
                       [t |-> "dict", Entry |-> entry,
                        Fields |-> FieldLoop_OnceAddValue(parts, entry.d, 3, <<>>)]]
               ELSE result2
       ELSE IF table = S_OnceAdditionalAttribute /\ mode = S_LevelUp
       THEN LET entries == build_level_entries(VStr(identifier),
                                               ONCE_ADD_ATTR_VALUE_DATA,
                                               context_max_level)
                levels_out == [ k \in 1..Len(entries) |->
                                  [Level |-> entries[k][1],
                                   Fields |-> FieldLoop_OnceAddLevelUp(
                                                  parts, entries[k][2].d, 3, <<>>)] ]
            IN [result2 EXCEPT !.Resolved = [t |-> "dict", Levels |-> levels_out]]
       ELSE result2

\* the branches of resolve_param after Table and Mode are set (result2)
resolve_param_branches(parts, result2, context_max_level) ==
    LET table == parts[1]
        mode == parts[2]
        identifier == parts[3]
    IN IF table = S_HitDamage /\ mode = S_DamageNum
       THEN LET entry == TableGet(HIT_DAMAGE_DATA, identifier)
                raw_list == IF S_SkillPercentAmend \in DOMAIN entry.d
                            THEN entry.d[S_SkillPercentAmend] ELSE VList(<<>>)
            IN IF Truthy(entry) /\ raw_list.t = "list"
               THEN [result2 EXCEPT
                       !.Resolved = HitDamageResolved(entry.d, identifier, raw_list.l)]
               ELSE result2
       ELSE IF table = S_BuffValue
       THEN LET entry == TableGet(BUFF_VALUE_DATA, identifier)
            IN IF Truthy(entry)
               THEN [result2 EXCEPT !.Resolved =
                       [t |-> "dict", Entry |-> entry,
                        Fields |-> FieldLoop_BuffValue(parts, entry.d, 3, <<>>)]]
               ELSE result2
       ELSE IF table = S_EffectValue
       THEN LET entry == TableGet(EFFECT_VALUE_DATA, identifier)
            IN IF Truthy(entry)
               THEN [result2 EXCEPT !.Resolved =
                       [t |-> "dict", Entry |-> entry,
                        Fields |-> FieldLoop_EffectValue(parts, entry.d, 3, <<>>)]]
               ELSE result2
       ELSE IF table = S_Effect /\ mode = S_LevelUp
       THEN LET entries == build_level_entries(VStr(identifier), EFFECT_VALUE_DATA,
                                               context_max_level)
                levels_out == [ k \in 1..Len(entries) |->
                                  [Level |-> entries[k][1],
                                   Fields |-> FieldLoop_EffectLevelUp(
                                                  parts, entries[k][2].d, 3, <<>>)] ]
            IN [result2 EXCEPT !.Resolved =
                  [t |-> "dict", Effect |-> TableGet(EFFECT_DATA, identifier),
                   Levels |-> levels_out]]
       ELSE IF table = S_OnceAdditionalAttributeValue /\ mode = S_NoLevel
       THEN LET entry == TableGet(ONCE_ADD_ATTR_VALUE_DATA, identifier)
            IN IF Truthy(entry)
               THEN [result2 EXCEPT !.Resolved =
                       [t |-> "dict", Entry |-> entry,
                        Fields |-> FieldLoop_OnceAddValue(parts, entry.d, 3, <<>>)]]
               ELSE result2
       ELSE IF table = S_OnceAdditionalAttribute /\ mode = S_LevelUp
       THEN LET entries == build_level_entries(VStr(identifier),
                                               ONCE_ADD_ATTR_VALUE_DATA,
                                               context_max_level)
                levels_out == [ k \in 1..Len(entries) |->
                                  [Level |-> entries[k][1],
                                   Fields |-> FieldLoop_OnceAddLevelUp(
                                                  parts, entries[k][2].d, 3, <<>>)] ]
            IN [result2 EXCEPT !.Resolved = [t |-> "dict", Levels |-> levels_out]]
       ELSE result2

\* faulty variant: the token-count guard is len(parts) < 4
resolve_param_four_tokens(param_str, context_max_level) ==
    LET result == ResultInit(param_str)
        parts == Split(param_str.s)
    IN IF ~Truthy(param_str) THEN result
       ELSE IF Len(parts) < 4 THEN result
       ELSE resolve_param_branches(
                parts, [result EXCEPT !.Table = VStr(parts[1]), !.Mode = VStr(parts[2])],
                context_max_level)

\* faulty variant: Table and Mode are set from the first two tokens before
\* the token-count guard
resolve_param_parse_first(param_str, context_max_level) ==
    LET result == ResultInit(param_str)
        parts == Split(param_str.s)
        parsed == IF Len(parts) >= 2
                  THEN [result EXCEPT !.Table = VStr(parts[1]), !.Mode = VStr(parts[2])]
                  ELSE [result EXCEPT !.Table = VStr(parts[1])]
    IN IF ~Truthy(param_str) THEN result
       ELSE IF Len(parts) < 3 THEN parsed
       ELSE resolve_param_branches(
                parts, [result EXCEPT !.Table = VStr(parts[1]), !.Mode = VStr(parts[2])],
                context_max_level)

resolve_param(param_str, context_max_level) ==
    LET result == ResultInit(param_str)
        parts == Split(param_str.s)
    IN IF ~Truthy(param_str) THEN result
       ELSE IF Len(parts) < 3 THEN result
       ELSE resolve_param_branches(
                parts, [result EXCEPT !.Table = VStr(parts[1]), !.Mode = VStr(parts[2])],
                context_max_level)

\* whether resolve_param(param_str) gets as far as calling
\* _infer_bind_skill_for_hitdamage: the HitDamage branch with a truthy entry
\* holding a list, and no explicit level data or one that names no skill
InferReached(param_str) ==
    /\ Truthy(param_str)
    /\ LET parts == Split(param_str.s)
       IN /\ Len(parts) >= 3
          /\ parts[1] = S_HitDamage
          /\ parts[2] = S_DamageNum
          /\ LET entry == TableGet(HIT_DAMAGE_DATA, parts[3])
                 raw_list == IF S_SkillPercentAmend \in DOMAIN entry.d
                             THEN entry.d[S_SkillPercentAmend] ELSE VList(<<>>)
                 explicit_level_data == PyOr(DictGet(entry.d, S_LevelData),
                                             DictGet(entry.d, S_LevelId))
             IN /\ Truthy(entry)
                /\ raw_list.t = "list"
                /\ \/ explicit_level_data = None
                   \/ ~Truthy(TableGet(SKILL_DATA, py_str(explicit_level_data)))

(***************************************************************************)
(* analyze_hitdamage_level_combos.py                                       *)
(***************************************************************************)
\* get_first_present(d, keys): the value under the first of keys that d holds,
\* None when it holds none of them
get_first_present(d, keys) ==
    LET present == { i \in 1..Len(keys) : keys[i] \in DOMAIN d }
    IN IF present = {} THEN None
       ELSE d[keys[CHOOSE i \in present : \A j \in present : i <= j]]

\* faulty variant: the sample list is filled while it is no longer than top_samples
RECURSIVE analyze_hitdamage_one_more(_, _, _, _)
analyze_hitdamage_one_more(items, top_samples, k, acc) ==
    IF k > Len(items)
    THEN [total |-> acc.total, missing_levelTypeData |-> acc.missing_ltd,
          missing_LevelData |-> acc.missing_ld, top_samples |-> top_samples,
          combo_stats |-> acc.combo_stats]
    ELSE LET key == items[k][1]
             entry == items[k][2]
             IntOrNone(v) == IF v = None \/ py_int(v).exc # "" THEN None
                             ELSE VInt(py_int(v).i)
             level_type_val ==
                 IntOrNone(get_first_present(entry, <<"levelTypeData", "LevelTypeData",
                                                      "LevelType">>))
             level_data_val ==
                 IntOrNone(get_first_present(entry, <<"LevelData", "LevelId", "LevelID">>))
             skill_id_val ==
                 IntOrNone(get_first_present(entry, <<"SkillId", "skillId", "skillID">>))
             combo == <<level_type_val, level_data_val>>
             id == IF "Id" \in DOMAIN entry THEN entry["Id"] ELSE VStr(key)
             stat0 == IF combo \in DOMAIN acc.combo_stats THEN acc.combo_stats[combo]
                      ELSE [count |-> 0, ids |-> <<>>, skillId_present |-> 0,
                            skillId_absent |-> 0,
                            first_hit |-> [Id |-> id,
                                           HitdamageInfo |-> DictGet(entry, "HitdamageInfo"),
                                           SkillSlotType |-> DictGet(entry, "SkillSlotType")]]
             sampled == Len(stat0.ids) <= top_samples
             stat == [stat0 EXCEPT
                        !.count = @ + 1,
                        !.skillId_present = IF skill_id_val # None THEN @ + 1 ELSE @,
                        !.skillId_absent = IF skill_id_val = None THEN @ + 1 ELSE @,
                        !.ids = IF sampled THEN Append(@, py_int(id).i) ELSE @]
             acc2 == [total |-> acc.total + 1,
                      missing_ltd |-> acc.missing_ltd
                                      + (IF level_type_val = None THEN 1 ELSE 0),
                      missing_ld |-> acc.missing_ld
                                     + (IF level_data_val = None THEN 1 ELSE 0),
                      combo_stats |-> [ c \in DOMAIN acc.combo_stats \cup {combo} |->
                                          IF c = combo THEN stat ELSE acc.combo_stats[c] ]]
         IN IF sampled /\ py_int(id).exc # "" THEN Raised(py_int(id).exc)
            ELSE analyze_hitdamage_one_more(items, top_samples, k + 1, acc2)

\* analyze_hitdamage over the items of the loaded HitDamage.json, in file
\* order, from item k on; acc holds total, missing_ltd, missing_ld and
\* combo_stats as the loop has them before item k. The result is the report,
\* or the exception of int(entry.get("Id", key)), which nothing catches
RECURSIVE analyze_hitdamage(_, _, _, _)
analyze_hitdamage(items, top_samples, k, acc) ==
    IF k > Len(items)
    THEN [total |-> acc.total, missing_levelTypeData |-> acc.missing_ltd,
          missing_LevelData |-> acc.missing_ld, top_samples |-> top_samples,
          combo_stats |-> acc.combo_stats]
    ELSE LET key == items[k][1]
             entry == items[k][2]
             IntOrNone(v) == IF v = None \/ py_int(v).exc # "" THEN None
                             ELSE VInt(py_int(v).i)
             level_type_val ==
                 IntOrNone(get_first_present(entry, <<"levelTypeData", "LevelTypeData",
                                                      "LevelType">>))
             level_data_val ==
                 IntOrNone(get_first_present(entry, <<"LevelData", "LevelId", "LevelID">>))
             skill_id_val ==
                 IntOrNone(get_first_present(entry, <<"SkillId", "skillId", "skillID">>))
             combo == <<level_type_val, level_data_val>>
             id == IF "Id" \in DOMAIN entry THEN entry["Id"] ELSE VStr(key)
             stat0 == IF combo \in DOMAIN acc.combo_stats THEN acc.combo_stats[combo]
                      ELSE [count |-> 0, ids |-> <<>>, skillId_present |-> 0,
                            skillId_absent |-> 0,
                            first_hit |-> [Id |-> id,
                                           HitdamageInfo |-> DictGet(entry, "HitdamageInfo"),
                                           SkillSlotType |-> DictGet(entry, "SkillSlotType")]]
             sampled == Len(stat0.ids) < top_samples
             stat == [stat0 EXCEPT
                        !.count = @ + 1,
                        !.skillId_present = IF skill_id_val # None THEN @ + 1 ELSE @,
                        !.skillId_absent = IF skill_id_val = None THEN @ + 1 ELSE @,
                        !.ids = IF sampled THEN Append(@, py_int(id).i) ELSE @]
             acc2 == [total |-> acc.total + 1,
                      missing_ltd |-> acc.missing_ltd
                                      + (IF level_type_val = None THEN 1 ELSE 0),
                      missing_ld |-> acc.missing_ld
                                     + (IF level_data_val = None THEN 1 ELSE 0),
                      combo_stats |-> [ c \in DOMAIN acc.combo_stats \cup {combo} |->
                                          IF c = combo THEN stat ELSE acc.combo_stats[c] ]]
         IN IF sampled /\ py_int(id).exc # "" THEN Raised(py_int(id).exc)
            ELSE analyze_hitdamage(items, top_samples, k + 1, acc2)

(***************************************************************************)
(* merge_star_tower_events.py: gather_options                              *)
(***************************************************************************)
\* f"StarTowerEventOptionAction.{event_id}{option_index:02d}{npc_id}.{line_index}"
OptionKey(event_id, option_index, npc_id, line_index) ==
    <<"S", "t", "a", "r", "T", "o", "w", "e", "r", "E", "v", "e", "n", "t",
      "O", "p", "t", "i", "o", "n", "A", "c", "t", "i", "o", "n", ".">>
    \o IntToStr(event_id)
    \o (IF 0 <= option_index /\ option_index < 10 THEN <<"0">> ELSE <<>>)
    \o IntToStr(option_index) \o IntToStr(npc_id) \o <<".">> \o IntToStr(line_index)

\* the inner while loop: the texts under the line keys line_index,
\* line_index + 1, ... up to the first key option_data does not hold
RECURSIVE OptionLines(_, _, _, _, _)
OptionLines(option_data, event_id, option_index, npc_id, line_index) ==
    LET key == OptionKey(event_id, option_index, npc_id, line_index)
    IN IF key \notin DOMAIN option_data THEN <<>>
       ELSE <<option_data[key]>>
            \o OptionLines(option_data, event_id, option_index, npc_id, line_index + 1)

\* faulty variant: an option index without text is passed over and the scan
\* goes on up to index 9
RECURSIVE gather_options_skip_gaps(_, _, _, _, _)
gather_options_skip_gaps(option_data, event_id, npc_ids, option_index, collected_options) ==
    LET found == SelectSeq(npc_ids,
                           LAMBDA npc_id :
                               OptionLines(option_data, event_id, option_index, npc_id, 1)
                                 # <<>>)
        added == [ k \in 1..Len(found) |->
                     [option_index |-> option_index, npc_id |-> found[k],
                      lines |-> OptionLines(option_data, event_id, option_index, found[k], 1)] ]
    IN IF option_index > 9 THEN collected_options
       ELSE gather_options_skip_gaps(option_data, event_id, npc_ids, option_index + 1,
                                     collected_options \o added)

\* gather_options from option_index on, collected_options being the list so
\* far: one pass of the outer loop appends, in the order of npc_ids, an entry
\* for every NPC with at least one line, and the loop ends at the first index
\* that added none
RECURSIVE gather_options(_, _, _, _, _)
gather_options(option_data, event_id, npc_ids, option_index, collected_options) ==
    LET found == SelectSeq(npc_ids,
                           LAMBDA npc_id :
                               OptionLines(option_data, event_id, option_index, npc_id, 1)
                                 # <<>>)
        added == [ k \in 1..Len(found) |->
                     [option_index |-> option_index, npc_id |-> found[k],
                      lines |-> OptionLines(option_data, event_id, option_index, found[k], 1)] ]
    IN IF found = <<>> THEN collected_options
       ELSE gather_options(option_data, event_id, npc_ids, option_index + 1,
                           collected_options \o added)

(***************************************************************************)
(* extract_character_details.py: gather_attribute_tables                   *)
(***************************************************************************)
\* faulty variant of the first loop: a later entry of a level always
\* replaces the one kept so far
RECURSIVE group_entries_last_wins(_, _, _, _)
group_entries_last_wins(attribute_data, attribute_group_id, k, group_entries) ==
    IF k > Len(attribute_data) THEN [kept |-> group_entries]
    ELSE
    LET e == attribute_data[k]
        lvl == <<"l", "v", "l">>
        lv == py_int(IF lvl \in DOMAIN e THEN e[lvl] ELSE VInt(0))
        rest(g) == group_entries_last_wins(attribute_data, attribute_group_id, k + 1, g)
    IN IF /\ attribute_group_id # None
          /\ py_str(DictGet(e, <<"G", "r", "o", "u", "p", "I", "d">>))
               # py_str(attribute_group_id)
       THEN rest(group_entries)
       ELSE IF lv.exc # "" THEN Raised(lv.exc)
       ELSE rest([ l \in DOMAIN group_entries \cup {lv.i} |->
                     IF l = lv.i THEN e ELSE group_entries[l] ])

\* the first loop of gather_attribute_tables from entry k of
\* ATTRIBUTE_DATA.values() on: group_entries maps a level to the entry kept
\* for it; the result holds the final mapping, or the exception an int() raised
RECURSIVE group_entries_from(_, _, _, _)
group_entries_from(attribute_data, attribute_group_id, k, group_entries) ==
    IF k > Len(attribute_data) THEN [kept |-> group_entries]
    ELSE
    LET e == attribute_data[k]
        Id == <<"I", "d">>
        lvl == <<"l", "v", "l">>
        lv == py_int(IF lvl \in DOMAIN e THEN e[lvl] ELSE VInt(0))
        existed == group_entries[lv.i]
        new_id == py_int(DictGet(e, Id))
        old_id == py_int(IF Id \in DOMAIN existed THEN existed[Id]
                         ELSE VStr(<<"9", "9", "9", "9", "9", "9", "9", "9">>))
        rest(g) == group_entries_from(attribute_data, attribute_group_id, k + 1, g)
        put == [ l \in DOMAIN group_entries \cup {lv.i} |->
                   IF l = lv.i THEN e ELSE group_entries[l] ]
    IN IF /\ attribute_group_id # None
          /\ py_str(DictGet(e, <<"G", "r", "o", "u", "p", "I", "d">>))
               # py_str(attribute_group_id)
       THEN rest(group_entries)
       ELSE IF lv.exc # "" THEN Raised(lv.exc)
       ELSE IF lv.i \notin DOMAIN group_entries THEN rest(put)
       ELSE IF new_id.exc # "" THEN Raised(new_id.exc)
       ELSE IF old_id.exc # "" THEN Raised(old_id.exc)
       ELSE IF new_id.i < old_id.i THEN rest(put)
       ELSE rest(group_entries)

\* the second loop: the rows of the levels of targets in ascending order,
\* a level without an entry, or with an empty one, giving no row.  Stats
\* lists the fields of the entry other than Id, GroupId and lvl; entries of
\* the model have at most one such field
RECURSIVE attribute_rows(_, _)
attribute_rows(group_entries, targets) ==
    IF targets = {} THEN <<>>
    ELSE
    LET lv == CHOOSE l \in targets : \A o \in targets : l <= o
        e == group_entries[lv]
        names == DOMAIN e \ { <<"I", "d">>, <<"G", "r", "o", "u", "p", "I", "d">>,
                              <<"l", "v", "l">> }
        stats == IF names = {} THEN <<>>
                 ELSE LET k == CHOOSE name \in names : TRUE
                      IN << [Key |-> VStr(k),
                             JapaneseName |->
                                 DictGet(UITEXT_LANG,
                                         S_UITextDot \o <<"A", "t", "t", "r", "_">>
                                         \o k \o S_Dot1),
                             Value |-> e[k]] >>
        later == attribute_rows(group_entries, targets \ {lv})
    IN IF lv \notin DOMAIN group_entries \/ DOMAIN e = {} THEN later
       ELSE <<[Level |-> lv, Stats |-> stats]>> \o later

\* gather_attribute_tables(attribute_group_id) over the entries of
\* ATTRIBUTE_DATA.values() in their order
gather_attribute_tables(attribute_data, attribute_group_id) ==
    LET first == group_entries_from(attribute_data, attribute_group_id, 1, <<>>)
        group_entries == first.kept
        keys == DOMAIN group_entries
        mx == CHOOSE l \in keys : \A o \in keys : o <= l
    IN IF IsRaised(first) THEN first
       ELSE IF keys = {} THEN [rows |-> <<>>]
       ELSE [rows |-> attribute_rows(group_entries,
                                     {1, mx} \cup { l \in keys : l % 10 = 0 })]

(***************************************************************************)
(* Table snapshots: the JSON tables as loaded at import.                   *)
(***************************************************************************)
S_Foo == <<"F", "o", "o">>
S_Bar == <<"B", "a", "r">>
S_Time == <<"T", "i", "m", "e">>
S_Type == <<"T", "y", "p", "e">>
S_Name == <<"N", "a", "m", "e">>
S_abc == <<"a", "b", "c">>
S_EAT == <<"E", "A", "T">>
S_4021 == <<"4", "0", "2", "1">>
S_4022 == <<"4", "0", "2", "2">>
S_71 == <<"7", "1">>
S_72 == <<"7", "2">>
S_73 == <<"7", "3">>
S_144101 == <<"1", "4", "4", "1", "0", "1">>
S_2001 == <<"2", "0", "0", "1">>

\* a record with the given fields: the function from field names to values
\* of a sequence of <<name, value>> pairs whose names are distinct
Record(pairs) ==
    [ name \in { pairs[k][1] : k \in 1..Len(pairs) } |->
        pairs[CHOOSE k \in 1..Len(pairs) : pairs[k][1] = name][2] ]

\* key of level l in the family prefix + level + suffix
LevelKey(prefix, l, suffix) == prefix \o IntToStr(l) \o suffix

\* a per-level value record
LevelRow(l) == Record(<< <<S_Time, VInt(1000 * l)>>, <<S_Type, VInt(l)>>,
                         <<S_Name, VStr(S_abc)>> >>)

\* a table holding the levels of `levels` of one family
FamilyTable(prefix, suffix, levels) ==
    [ key \in { LevelKey(prefix, l, suffix) : l \in levels } |->
        LevelRow(CHOOSE l \in levels : LevelKey(prefix, l, suffix) = key) ]

\* f extended by g on keys f lacks
Merge(f, g) ==
    [ key \in DOMAIN f \cup DOMAIN g |-> IF key \in DOMAIN f THEN f[key] ELSE g[key] ]

BuffValueTable ==
    Record(<< <<S_4021, Record(<< <<S_Time, VInt(100000)>>, <<S_Type, VInt(2)>>,
                                  <<S_Name, VStr(S_abc)>> >>)>>,
              <<S_4022, <<>> >> >>)

\* EffectValue: record 4021 and the levels `levels` of the family 1441<level>1
EffectValueTable(levels) ==
    Merge(Record(<< <<S_4021, Record(<< <<S_Time, VStr(<<"1", "2">>)>>,
                                        <<S_Type, VInt(1)>> >>)>>,
                    <<<<"1", "4">>, Record(<< <<S_Time, VInt(14)>> >>)>> >>),
          FamilyTable(<<"1", "4", "4", "1">>, <<"1">>, levels))

EffectTable == Record(<< <<S_144101, Record(<< <<S_Name, VStr(S_abc)>> >>)>> >>)

\* levels of the family 20<level>1: long enough for two-digit levels
LongFamily == 11

OnceAddValueTable ==
    Merge(Record(<< <<S_4021, Record(<< <<S_Time, VInt(5)>> >>)>> >>),
          FamilyTable(<<"2", "0">>, <<"1">>, 1..LongFamily))

EnumDescTable ==
    << Record(<< <<S_EnumName, VStr(S_ELT)>>, <<S_Value, VInt(1)>>,
                 <<S_Key, VStr(<<"L", "1">>)>> >>),
       Record(<< <<S_EnumName, VStr(S_ELT)>>, <<S_Value, VInt(2)>>,
                 <<S_Key, VStr(<<>>)>> >>),
       Record(<< <<S_EnumName, VStr(S_ELT)>>, <<S_Value, VInt(2)>>,
                 <<S_Key, VStr(<<"L", "2">>)>> >>),
       Record(<< <<S_EnumName, VStr(S_EAT)>>, <<S_Value, VInt(1)>>,
                 <<S_Key, VStr(<<"A", "1">>)>> >>),
       Record(<< <<S_EnumName, VStr(S_ELT)>>, <<S_Value, VInt(3)>>,
                 <<S_Key, VStr(<<"L", "3">>)>> >>) >>

UITextTable ==
    Record(<< <<S_UITextDot \o <<"L", "1">> \o S_Dot1, VStr(<<"s", "k">>)>>,
              <<S_UITextDot \o <<"L", "2">> \o S_Dot1, VStr(<<"l", "v">>)>>,
              <<S_UITextDot \o <<"A", "1">> \o S_Dot1, VStr(<<"a", "t">>)>> >>)

SkillLangTable ==
    Record(<< <<S_SkillDot \o <<"1">> \o S_Dot1, VStr(<<"A">>)>>,
              <<S_SkillDot \o <<"2">> \o S_Dot1, VStr(<<"B">>)>> >>)

\* the Param string HitDamage,DamageNum,<id>
HitDamageRef(id) == VStr(Join(<<S_HitDamage, S_DamageNum, id>>))

ParamKey(i) == S_Param \o IntToStr(i)

\* skill 1: references HitDamage 71 twice (Param1, Param15) when refs1
Skill1(refs1, ml) ==
    Record(<< <<S_MaxLevel, VInt(ml)>>,
              <<ParamKey(1), IF refs1 THEN HitDamageRef(S_71)
                             ELSE VStr(Join(<<S_BuffValue, S_NoLevel, S_4021, S_Time, S_10K>>))>>,
              <<ParamKey(15), IF refs1 THEN HitDamageRef(S_71) ELSE VInt(5)>> >>)

\* skill 2: references HitDamage 71 with trailing tokens (Param2) when refs2
Skill2(refs2, ml) ==
    Record(<< <<S_MaxLevel, VInt(ml)>>,
              <<ParamKey(2), IF refs2 THEN VStr(Join(<<S_HitDamage, S_DamageNum, S_71, S_Time>>))
                             ELSE VStr(Join(<<S_HitDamage, S_NoLevel, S_71>>))>> >>)

\* skill 3: references HitDamage 72 always (Param4), and 71 (Param3) when refs3
Skill3(refs3, ml) ==
    Record(<< <<S_MaxLevel, VInt(ml)>>,
              <<ParamKey(3), IF refs3 THEN HitDamageRef(S_71) ELSE None>>,
              <<ParamKey(4), HitDamageRef(S_72)>>,
              <<ParamKey(16), HitDamageRef(S_73)>> >>)

\* Skill.json: skills 1, 2, 3 and, when withX, a skill under the non-integer
\* key "x7" that references HitDamage 71
SkillTable(refs, ml1, ml2, withX) ==
    Merge(Record(<< <<<<"1">>, Skill1(1 \in refs, ml1)>>,
                    <<<<"2">>, Skill2(2 \in refs, ml2)>>,
                    <<<<"3">>, Skill3(3 \in refs, MaxValues)>> >>),
          IF withX
          THEN Record(<< <<<<"x", "7">>, Record(<< <<ParamKey(1), HitDamageRef(S_71)>> >>)>> >>)
          ELSE <<>>)

\* the k-th element of a SkillPercentAmend list
Amend(k) == IF k % 3 = 2 THEN VStr(S_abc)
            ELSE IF k % 3 = 0 THEN VStr(IntToStr(2500 * k))
            ELSE VInt(5000 * k)

AmendList(n) == VList([ k \in 1..n |-> Amend(k) ])

\* a field left out of a record
Absent == [t |-> "absent"]

\* optional field: no pair when the value is Absent
Opt(name, v) == IF v = Absent THEN <<>> ELSE << <<name, v>> >>

\* a HitDamage record
HitDamageRecord(amend, level_data, level_id, level_type) ==
    Record(Opt(S_SkillPercentAmend, amend) \o Opt(S_LevelData, level_data)
           \o Opt(S_LevelId, level_id) \o Opt(S_levelTypeData, level_type))

\* HitDamage.json: record 71 as given (no record when rec71 = None), record 72 fixed
HitDamageTable(rec71) ==
    Merge(Record(<< <<S_72, HitDamageRecord(AmendList(2), Absent, Absent, VInt(2))>> >>),
          IF rec71 = None THEN <<>> ELSE Record(<< <<S_71, rec71.d>> >>))

(***************************************************************************)
(* Initial states: the module after import (tables loaded, reverse index   *)
(* built).                                                                 *)
(***************************************************************************)
\* no call in progress: the caller is between two calls
Idle == [op |-> "idle"]

\* _JSON_CACHE after the loads: each table file under its path
LoadedFiles(hd, sk, ev) ==
    "JP/bin/Skill.json" :> sk
    @@ "JP/language/ja_JP/Skill.json" :> SkillLangTable
    @@ "JP/bin/HitDamage.json" :> hd
    @@ "JP/bin/BuffValue.json" :> BuffValueTable
    @@ "JP/bin/EffectValue.json" :> ev
    @@ "JP/bin/Effect.json" :> EffectTable
    @@ "JP/language/ja_JP/UIText.json" :> UITextTable
    @@ "JP/bin/OnceAdditionalAttributeValue.json" :> OnceAddValueTable
    @@ "JP/bin/EnumDesc.json" :> EnumDescTable

InitTables(hd, sk, ev) ==
    /\ HIT_DAMAGE_DATA = hd
    /\ SKILL_DATA = sk
    /\ SKILL_LANG = SkillLangTable
    /\ BUFF_VALUE_DATA = BuffValueTable
    /\ EFFECT_VALUE_DATA = ev
    /\ EFFECT_DATA = EffectTable
    /\ ONCE_ADD_ATTR_VALUE_DATA = OnceAddValueTable
    /\ ENUM_DESC_DATA = EnumDescTable
    /\ UITEXT_LANG = UITextTable
    /\ HITDAMAGE_TO_SKILLS = build_hitdamage_reverse_index(sk)
    /\ call = Idle
    /\ ret = None
    /\ JSON_CACHE = LoadedFiles(hd, sk, ev)
    /\ files = [ path \in DOMAIN LoadedFiles(hd, sk, ev) |->
                  [kind |-> "json", content |-> LoadedFiles(hd, sk, ev)[path]] ]
    /\ reads = [ path \in DOMAIN LoadedFiles(hd, sk, ev) |-> 1 ]
    /\ kept = None

\* the records HitDamage 71 ranges over
HitDamageRecords ==
    { VDict(HitDamageRecord(amend, ld, li, lt)) :
        amend \in { AmendList(n) : n \in 0..MaxValues },
        ld \in {Absent, VInt(0), VInt(1), VInt(9)},
        li \in {Absent, VInt(2)},
        lt \in {Absent, VInt(1)} }
    \cup { None, VDict(<<>>),
           VDict(HitDamageRecord(Absent, VInt(1), Absent, Absent)),
           VDict(HitDamageRecord(VInt(7), VInt(1), Absent, Absent)) }

MaxLevelChoices == {MaxValues - 1, MaxValues}

(***************************************************************************)
(* Inputs of the calls.                                                    *)
(***************************************************************************)
MaxRaw == 3

RawValues ==
    { VInt(n) : n \in -MaxRaw..MaxRaw }
    \cup { VInt(100000), VStr(<<"1", "2">>), VStr(<<"-", "7">>), VStr(S_abc), VStr(<<>>),
           VStr(<<"1", "x">>), None, VBool(TRUE), VBool(FALSE), VList(<<>>),
           VList(<<VInt(1)>>), VDict(<<>>), VFloat(1, 2) }

Transforms ==
    { None } \cup { VStr(tr) : tr \in { S_10K, S_HdPct, S_10KHdPct, S_Fixed, S_Enum, S_Foo,
                                        <<>>, <<"1", "0", "k">> } }

\* max_level / context_max_level arguments
Caps ==
    { None } \cup { VInt(n) : n \in -1..MaxCap } \cup { VInt(LongFamily - 1), VInt(LongFamily) }

BaseIds ==
    { VStr(S_144101), VInt(144101), VStr(S_2001), VInt(2001), VStr(<<>>), VStr(<<"1">>),
      VStr(<<"1", "4">>), VInt(14), VStr(<<"2", "0", "1">>), VStr(S_4021),
      VStr(<<"1", "4", "4", "1", "x", "1">>) }

Dataset(name) ==
    IF name = "EFFECT_VALUE_DATA" THEN EFFECT_VALUE_DATA ELSE ONCE_ADD_ATTR_VALUE_DATA

TableTokens ==
    { S_HitDamage, S_BuffValue, S_EffectValue, S_Effect, S_OnceAdditionalAttributeValue,
      S_OnceAdditionalAttribute, S_Foo, <<"h", "i", "t", "D", "a", "m", "a", "g", "e">>, <<>> }

ModeTokens == { S_NoLevel, S_LevelUp, S_DamageNum, S_Bar }

IdTokens == { S_4021, S_4022, S_144101, S_2001, S_71, <<"1">> }

FieldTokens ==
    { <<>>, <<S_Time, S_10K>>, <<S_Time>>, <<S_Type, S_Enum, S_ELT>>, <<S_Type, S_Enum>>,
      <<S_Time, S_HdPct, S_Type, S_Enum, S_ELT, S_Name>>,
      <<S_Name, S_Fixed, S_Time, S_10KHdPct>>, <<S_Type, S_Enum, <<>> >>, <<S_Foo, S_Foo>> }

\* expressions with fewer than three tokens
ShortExprs ==
    { <<>>, S_Foo, Join(<<S_Foo, S_Bar>>), Join(<<S_HitDamage, S_DamageNum>>), <<",">> }

ParamExprs ==
    { VStr(Join(<<tb, md, id>> \o fs)) :
        tb \in TableTokens, md \in ModeTokens, id \in IdTokens, fs \in FieldTokens }
    \cup { VStr(e) : e \in ShortExprs }

HitDamageExprs == { HitDamageRef(S_71), HitDamageRef(S_72), HitDamageRef(S_73) }

(***************************************************************************)
(* Actions: one call of each function; a call reads the tables and the     *)
(* reverse index and leaves its arguments in call, its return value in ret *)
(* The program is single-threaded and synchronous: a call starts only when *)
(* no other call is in progress, and runs to completion.                   *)
(***************************************************************************)
CallApplyNumericTransform ==
    \E raw_value \in RawValues, transform \in Transforms :
        /\ call = Idle
        /\ call' = [op |-> "apply_numeric_transform", raw_value |-> raw_value,
                    transform |-> transform]
        /\ ret' = apply_numeric_transform(raw_value, transform)
        /\ UNCHANGED <<tables, HITDAMAGE_TO_SKILLS, JSON_CACHE, files, reads, kept>>

CallBuildLevelEntries ==
    \E base_id \in BaseIds, dataset \in {"EFFECT_VALUE_DATA", "ONCE_ADD_ATTR_VALUE_DATA"},
       max_level \in Caps :
        /\ call = Idle
        /\ call' = [op |-> "build_level_entries", base_id |-> base_id,
                    dataset |-> dataset, max_level |-> max_level]
        /\ ret' = build_level_entries_probed(base_id, Dataset(dataset), max_level)
        /\ UNCHANGED <<tables, HITDAMAGE_TO_SKILLS, JSON_CACHE, files, reads, kept>>

CallInferBind ==
    \E identifier \in {S_71, S_72, S_73, <<"9">>}, values_count \in 0..MaxValues :
        /\ call = Idle
        /\ call' = [op |-> "_infer_bind_skill_for_hitdamage", identifier |-> identifier,
                    values_count |-> values_count]
        /\ ret' = infer_bind_skill_for_hitdamage(identifier, values_count)
        /\ HITDAMAGE_TO_SKILLS' = index_after_get(identifier)
        /\ UNCHANGED <<tables, JSON_CACHE, files, reads, kept>>

\* HitDamage entries analyze_hitdamage meets: the level type, level data and
\* skill id under each of their spellings, as ints, digit strings, floats,
\* None and text no int() accepts, with and without an Id
EntryKinds ==
    { [levelTypeData |-> VInt(1), LevelData |-> VInt(7), SkillId |-> VInt(3)],
      [LevelTypeData |-> VStr(<<"1">>), LevelId |-> VInt(7)],
      [levelTypeData |-> None, LevelType |-> VInt(2), LevelData |-> VInt(7),
       skillId |-> VStr(S_abc)],
      [LevelData |-> VStr(S_abc), Id |-> VInt(900), HitdamageInfo |-> VInt(1)],
      [levelTypeData |-> VInt(1), Id |-> VStr(S_abc)],
      [levelTypeData |-> VFloat(3, 2), LevelID |-> VInt(7), skillID |-> VInt(0)] }

\* the script run on a HitDamage.json of up to MaxEntries entries, keys "11",
\* "12", ... in file order, with --top-samples top_samples
CallAnalyzeHitDamage ==
    /\ call = Idle
    /\ \E n \in 0..MaxEntries, top_samples \in -1..MaxSamples :
        \E kinds \in [1..n -> EntryKinds] :
            /\ call' = [op |-> "analyze_hitdamage",
                        items |-> [ k \in 1..n |-> <<IntToStr(10 + k), kinds[k]>> ],
                        top_samples |-> top_samples]
            /\ ret' = analyze_hitdamage([ k \in 1..n |-> <<IntToStr(10 + k), kinds[k]>> ],
                                        top_samples, 1,
                                        [total |-> 0, missing_ltd |-> 0, missing_ld |-> 0,
                                         combo_stats |-> <<>>])
            /\ UNCHANGED <<tables, HITDAMAGE_TO_SKILLS, JSON_CACHE, files, reads, kept>>

\* the option texts of event 3 for the NPCs 23 and 5: NPC 23 has
\* lines[option_index] consecutive lines of each option, NPC 5 one line of
\* the options in second, and `stray` adds a line two past the last one of
\* NPC 23's first option
OptionTexts(lines, second, stray) ==
    LET keys == UNION { { OptionKey(3, o, 23, l) : l \in 1..lines[o] } : o \in 1..MaxOptions }
                \cup { OptionKey(3, o, 5, 1) : o \in second }
                \cup (IF stray THEN { OptionKey(3, 1, 23, lines[1] + 2) } ELSE {})
    IN [ key \in keys |-> VStr(key) ]

CallGatherOptions ==
    /\ call = Idle
    /\ \E lines \in [1..MaxOptions -> 0..MaxLines], second \in SUBSET (1..2),
          stray \in BOOLEAN, npc_ids \in { <<23, 5>>, <<5>>, <<>> } :
        /\ call' = [op |-> "gather_options", option_data |-> OptionTexts(lines, second, stray),
                    event_id |-> 3, npc_ids |-> npc_ids]
        /\ ret' = [options |-> gather_options(OptionTexts(lines, second, stray), 3, npc_ids,
                                              1, <<>>)]
        /\ UNCHANGED <<tables, HITDAMAGE_TO_SKILLS, JSON_CACHE, files, reads, kept>>

\* an Attribute table of n entries in the order of values(): entry k has
\* the Id k, or n + 1 - k when descending, the group groups[k] and the level
\* levels[k], the level 0 standing for an entry without a lvl field
AttributeEntries(n, levels, groups, descending) ==
    [ k \in 1..n |->
        LET id == IF descending THEN n + 1 - k ELSE k
        IN Record(<< <<<<"I", "d">>, VInt(id)>>,
                     <<<<"G", "r", "o", "u", "p", "I", "d">>, VInt(groups[k])>>,
                     <<<<"A", "t", "k">>, VInt(100 * id)>> >>
                  \o (IF levels[k] = 0 THEN <<>>
                      ELSE << <<<<"l", "v", "l">>, VInt(levels[k])>> >>)) ]

CallGatherAttributeTables ==
    /\ call = Idle
    /\ \E n \in 0..MaxAttributes, descending \in BOOLEAN,
          attribute_group_id \in { VInt(7), VStr(<<"7">>), VInt(9), None } :
      \E levels \in [1..n -> {0, 1, 5, 10}], groups \in [1..n -> {7, 8}] :
        /\ call' = [op |-> "gather_attribute_tables",
                    attribute_data |-> AttributeEntries(n, levels, groups, descending),
                    attribute_group_id |-> attribute_group_id]
        /\ ret' = gather_attribute_tables(AttributeEntries(n, levels, groups, descending),
                                          attribute_group_id)
        /\ UNCHANGED <<tables, HITDAMAGE_TO_SKILLS, JSON_CACHE, files, reads, kept>>

CallResolveEnumText ==
    \E enum_name \in {VStr(S_ELT), VStr(S_EAT), VStr(S_Foo)},
       raw_value \in RawValues \cup {VStr(<<"2">>), VFloat(5, 2)} :
        /\ call = Idle
        /\ call' = [op |-> "resolve_enum_text", enum_name |-> enum_name,
                    raw_value |-> raw_value]
        /\ ret' = resolve_enum_text(enum_name, raw_value)
        /\ UNCHANGED <<tables, HITDAMAGE_TO_SKILLS, JSON_CACHE, files, reads, kept>>

ResolveParamCall(param_str, context_max_level) ==
    /\ call = Idle
    /\ call' = [op |-> "resolve_param", param_str |-> param_str,
                context_max_level |-> context_max_level]
    /\ ret' = resolve_param(param_str, context_max_level)
    /\ HITDAMAGE_TO_SKILLS' = IF InferReached(param_str)
                              THEN index_after_get(Split(param_str.s)[3])
                              ELSE HITDAMAGE_TO_SKILLS
    /\ UNCHANGED <<tables, JSON_CACHE, files, reads, kept>>

\* context_max_level arguments of the resolve_param calls
ParamCaps == { None } \cup { VInt(n) : n \in 0..MaxCap }

CallResolveParam ==
    \E param_str \in ParamExprs, context_max_level \in ParamCaps :
        ResolveParamCall(param_str, context_max_level)

CallResolveHitDamage ==
    \E param_str \in HitDamageExprs : ResolveParamCall(param_str, None)

\* the paths load_json is called with
LoadPaths == {"JP/bin/Skill.json", "JP/bin/HitDamage.json"}

\* what can be behind a path: no file, a file that is not JSON, or a JSON object
FileStates ==
    { [kind |-> "missing"], [kind |-> "malformed"] }
    \cup { [kind |-> "json", content |-> table] :
             table \in { SkillTable({1}, MaxValues, MaxValues, FALSE),
                         HitDamageTable(None) } }

\* the first load of a path reads the file behind it; a later one does not
CallLoadJson ==
    \E path \in LoadPaths :
        /\ call = Idle
        /\ reads[path] < MaxReads
        /\ call' = [op |-> "load_json", path |-> path]
        /\ ret' = load_json(path).ret
        /\ JSON_CACHE' = load_json(path).cache
        /\ reads' = IF load_json(path).parsed THEN [reads EXCEPT ![path] = @ + 1] ELSE reads
        /\ UNCHANGED <<tables, HITDAMAGE_TO_SKILLS, files, kept>>

\* the file behind a path is replaced, damaged or removed between two calls
FileChange ==
    \E path \in LoadPaths, state \in FileStates :
        /\ call = Idle
        /\ files[path] # state
        /\ files' = [files EXCEPT ![path] = state]
        /\ UNCHANGED <<tables, HITDAMAGE_TO_SKILLS, call, ret, JSON_CACHE, reads, kept>>

\* the caller stores the object resolve_param returned: params[k] = resolve_param(...)
KeepResult ==
    /\ call.op = "resolve_param"
    /\ kept = None
    /\ kept' = [param_str |-> call.param_str, context_max_level |-> call.context_max_level,
                result |-> ret]
    /\ call' = Idle
    /\ ret' = None
    /\ UNCHANGED <<tables, HITDAMAGE_TO_SKILLS, JSON_CACHE, files, reads>>

\* the caller takes the returned value and goes on; an exception is caught
\* nowhere, so a call that raised ends the run
Return ==
    /\ call # Idle
    /\ ~IsRaised(ret)
    /\ call' = Idle
    /\ ret' = None
    /\ UNCHANGED <<tables, HITDAMAGE_TO_SKILLS, JSON_CACHE, files, reads, kept>>

(***************************************************************************)
(* Specifications.                                                         *)
(***************************************************************************)
\* the whole resolver over a few table snapshots
Init ==
    \E levels \in {{}, 1..MaxLevelKey, (1..MaxLevelKey) \ {2}} :
        InitTables(HitDamageTable(VDict(HitDamageRecord(AmendList(MaxValues), Absent, Absent,
                                                        VInt(1)))),
                   SkillTable({1, 2}, MaxValues - 1, MaxValues, TRUE),
                   EffectValueTable(levels))

Next ==
    \/ CallApplyNumericTransform
    \/ CallBuildLevelEntries
    \/ CallInferBind
    \/ CallResolveEnumText
    \/ CallResolveParam
    \/ Return

Spec == Init /\ [][Next]_vars

\* apply_numeric_transform over its inputs
InitTransform ==
    InitTables(HitDamageTable(None), SkillTable({1}, MaxValues, MaxValues, FALSE),
               EffectValueTable(1..MaxLevelKey))

NextTransform == CallApplyNumericTransform \/ Return

SpecTransform == InitTransform /\ [][NextTransform]_vars

\* the report of analyze_hitdamage_level_combos.py, gather_options and
\* gather_attribute_tables over the inputs of their actions
NextScripts ==
    CallAnalyzeHitDamage \/ CallGatherOptions \/ CallGatherAttributeTables \/ Return

SpecScripts == InitTransform /\ [][NextScripts]_vars

\* build_level_entries over datasets with every set of present levels
InitLevels ==
    \E levels \in SUBSET (1..MaxLevelKey) :
        InitTables(HitDamageTable(None), SkillTable({1}, MaxValues, MaxValues, FALSE),
                   EffectValueTable(levels))

NextLevels == CallBuildLevelEntries \/ Return

SpecLevels == InitLevels /\ [][NextLevels]_vars

\* the HitDamage branch and its bind step over HitDamage records and skills
InitBind ==
    \E rec71 \in HitDamageRecords, refs \in SUBSET {1, 2, 3},
       ml1 \in MaxLevelChoices, ml2 \in MaxLevelChoices, withX \in BOOLEAN :
        InitTables(HitDamageTable(rec71), SkillTable(refs, ml1, ml2, withX),
                   EffectValueTable(1..MaxLevelKey))

NextBind ==
    \/ CallResolveHitDamage
    \/ CallInferBind
    \/ Return

SpecBind == InitBind /\ [][NextBind]_vars

\* load_json from the start of the process: nothing cached, no table bound yet
InitLoad ==
    /\ HIT_DAMAGE_DATA = None
    /\ SKILL_DATA = None
    /\ SKILL_LANG = None
    /\ BUFF_VALUE_DATA = None
    /\ EFFECT_VALUE_DATA = None
    /\ EFFECT_DATA = None
    /\ ONCE_ADD_ATTR_VALUE_DATA = None
    /\ ENUM_DESC_DATA = None
    /\ UITEXT_LANG = None
    /\ HITDAMAGE_TO_SKILLS = <<>>
    /\ call = Idle
    /\ ret = None
    /\ JSON_CACHE = <<>>
    /\ files \in [LoadPaths -> FileStates]
    /\ reads = [ path \in LoadPaths |-> 0 ]
    /\ kept = None

NextLoad == CallLoadJson \/ FileChange \/ Return

SpecLoad == InitLoad /\ [][NextLoad]_vars

\* resolve_param called again and again over a few expressions, the caller
\* keeping one of the results
HistoryExprs ==
    { VStr(Join(<<S_HitDamage, S_DamageNum, S_71>>)),
      VStr(Join(<<S_BuffValue, S_NoLevel, S_4021, S_Time, S_10K>>)),
      VStr(Join(<<S_Effect, S_LevelUp, S_144101, S_Time>>)),
      VStr(Join(<<S_Foo, S_Bar, <<"1">>>>)) }

CallResolveAgain ==
    \E param_str \in HistoryExprs, context_max_level \in {None, VInt(1)} :
        ResolveParamCall(param_str, context_max_level)

NextHistory == CallResolveAgain \/ KeepResult \/ Return

SpecHistory == Init /\ [][NextHistory]_vars

(***************************************************************************)
(* Properties.                                                             *)
(***************************************************************************)
Min(a, b) == IF a < b THEN a ELSE b
Max(a, b) == IF a > b THEN a ELSE b

\* a raw value float() accepts, and its value as the fraction <<num, den>>
IsNumericRaw(v) ==
    \/ v.t \in {"int", "bool", "float"}
    \/ v.t = "str" /\ ParseInt(v.s).ok

NumVal(v) ==
    CASE v.t = "int" -> <<v.i, 1>>
      [] v.t = "bool" -> <<IF v.b THEN 1 ELSE 0, 1>>
      [] v.t = "float" -> <<v.num, v.den>>
      [] v.t = "str" -> <<ParseInt(v.s).i, 1>>

\* the float c equals q times mul / div
IsScaled(c, q, mul, div) ==
    /\ c # None
    /\ c.t = "float"
    /\ c.num * q[2] * div = q[1] * mul * c.den

C2_NonNumericKeepsRaw ==
    (call.op = "apply_numeric_transform" /\ ~IsNumericRaw(call.raw_value)) =>
        /\ ~IsRaised(ret)
        /\ ret.Converted = None
        /\ ret.Raw = call.raw_value

\* C2 witness: a non-numeric string under a scaling transform
C2_Witness ==
    /\ call.op = "apply_numeric_transform"
    /\ call.raw_value = VStr(S_abc)
    /\ call.transform = VStr(S_HdPct)
    /\ ret.Converted = None
    /\ ret.Raw = VStr(S_abc)

\* the key of level l derived from a base id: all but its last two
\* characters, the level, its last character
ClaimLevelKey(s, l) == SubSeq(s, 1, Len(s) - 2) \o IntToStr(l) \o <<s[Len(s)]>>

\* the number of consecutive levels 1, 2, ... whose key is in the dataset
RECURSIVE ConsecutiveLevels(_, _, _)
ConsecutiveLevels(s, dataset, l) ==
    IF ClaimLevelKey(s, l) \in DOMAIN dataset
    THEN ConsecutiveLevels(s, dataset, l + 1) ELSE l - 1

\* the series of levels 1..m of the family of s
LevelSeries(s, dataset, m) ==
    [ l \in 1..m |-> <<l, VDict(dataset[ClaimLevelKey(s, l)])>> ]

\* C3: for a base id of length >= 3 the series is the levels
\* 1..min(k, context_max_level) in consecutive increasing order, k the last
\* level before the first missing key (1..k without a cap); keys after the
\* first gap are not included
C3_Original ==
    (call.op = "build_level_entries" /\ Len(py_str(call.base_id)) >= 3) =>
        LET s == py_str(call.base_id)
            k == ConsecutiveLevels(s, Dataset(call.dataset), 1)
            m == IF call.max_level = None THEN k ELSE Min(k, call.max_level.i)
        IN ret.out = LevelSeries(s, Dataset(call.dataset), Max(m, 0))

\* C3, what the code returns: for a base id of length >= 3 the series is the
\* levels 1..m in consecutive increasing order with their rows, m = k
\* without a cap and min(k, max(cap, 1)) with one (k = the last level before
\* the first missing key): the cap is tested after the append, so a cap
\* below 1 still lets level 1 through; nothing after the first gap is
\* included
C3_LevelSeries ==
    (call.op = "build_level_entries" /\ Len(py_str(call.base_id)) >= 3) =>
        LET s == py_str(call.base_id)
            k == ConsecutiveLevels(s, Dataset(call.dataset), 1)
            m == IF call.max_level = None THEN k
                 ELSE Min(k, Max(call.max_level.i, 1))
        IN ret.out = LevelSeries(s, Dataset(call.dataset), m)

\* C3 witness: levels 1 and 3 present, 2 missing, no cap: only level 1 returned
C3_Witness ==
    /\ call.op = "build_level_entries"
    /\ call.base_id = VStr(S_144101)
    /\ call.dataset = "EFFECT_VALUE_DATA"
    /\ call.max_level = None
    /\ ClaimLevelKey(S_144101, 3) \in DOMAIN EFFECT_VALUE_DATA
    /\ ClaimLevelKey(S_144101, 2) \notin DOMAIN EFFECT_VALUE_DATA
    /\ Len(ret.out) = 1
    /\ ret.out[1][1] = 1

\* C3 witness of the cap and of a two-digit level: the long family capped at 10
C3_WitnessCap ==
    /\ call.op = "build_level_entries"
    /\ call.base_id = VStr(S_2001)
    /\ call.dataset = "ONCE_ADD_ATTR_VALUE_DATA"
    /\ call.max_level = VInt(LongFamily - 1)
    /\ Len(ret.out) = LongFamily - 1

\* C4: a base id whose string form has fewer than 3 characters gives an empty
\* series whatever the dataset and max_level, and the dataset is not probed
C4_ShortIdEmpty ==
    (call.op = "build_level_entries" /\ Len(py_str(call.base_id)) < 3) =>
        /\ ret.out = <<>>
        /\ ret.probes = <<>>

\* C4 witness: the two-character id "14" over a dataset that holds the key
\* "14" (the level-1 key an unguarded loop would probe)
C4_Witness ==
    /\ call.op = "build_level_entries"
    /\ call.base_id = VStr(<<"1", "4">>)
    /\ call.dataset = "EFFECT_VALUE_DATA"
    /\ <<"1", "4">> \in DOMAIN EFFECT_VALUE_DATA
    /\ call.max_level = None
    /\ ret.out = <<>>

(***************************************************************************)
(* Properties of the HitDamage branch.                                     *)
(***************************************************************************)
\* the call in progress is resolve_param on HitDamage,DamageNum,<id>...
IsHitDamageCall ==
    /\ call.op = "resolve_param"
    /\ Len(Split(call.param_str.s)) >= 3
    /\ Split(call.param_str.s)[1] = S_HitDamage
    /\ Split(call.param_str.s)[2] = S_DamageNum

CallId == Split(call.param_str.s)[3]

\* it produced a payload
HasPayload == ret.Resolved # None

\* the HitDamage record the call names
CallRecord == HIT_DAMAGE_DATA[CallId]

\* a skill record one of whose Param1..Param15 is a string whose first three
\* comma-separated tokens are HitDamage, DamageNum, id
RefsHitDamage(skill, id) ==
    \E i \in 1..15 :
        LET v == DictGet(skill, ParamKey(i))
        IN /\ v.t = "str"
           /\ Len(Split(v.s)) >= 3
           /\ SubSeq(Split(v.s), 1, 3) = <<S_HitDamage, S_DamageNum, id>>

\* the keys of the skills referencing id, and the ids of the integer-keyed ones
ReferencingSkills(id) == { k \in DOMAIN SKILL_DATA : RefsHitDamage(SKILL_DATA[k], id) }

ReferencingIds(id) == { ParseInt(k).i : k \in { r \in ReferencingSkills(id) : ParseInt(r).ok } }

\* the explicit linkage value of a record: LevelData, else LevelId
ExplicitLinkage(rec) == PyOr(DictGet(rec, S_LevelData), DictGet(rec, S_LevelId))

\* the value names a (non-empty) record of the skill table
NamesSkill(v) ==
    /\ v # None
    /\ py_str(v) \in DOMAIN SKILL_DATA
    /\ DOMAIN SKILL_DATA[py_str(v)] # {}

LengthMatches(id, n) ==
    { c \in ReferencingIds(id) :
        DictGet(SKILL_DATA[IntToStr(c)], S_MaxLevel) = VInt(n) }

MinOf(S) == CHOOSE x \in S : \A y \in S : x <= y

\* C7 as stated: with several referencing skills, a skill whose MaxLevel
\* equals the value count is selected whenever one exists; only otherwise
\* the first candidate, flagged ambiguous
C7_Original ==
    (/\ call.op = "_infer_bind_skill_for_hitdamage"
     /\ Cardinality(ReferencingIds(call.identifier)) >= 2) =>
        IF LengthMatches(call.identifier, call.values_count) # {}
        THEN /\ ret.sid.i \in LengthMatches(call.identifier, call.values_count)
             /\ ret.method = "ReverseRef_LengthMatch"
        ELSE /\ ret.sid = VInt(MinOf(ReferencingIds(call.identifier)))
             /\ ret.method = "ReverseRef_Ambiguous_TakeFirst"

\* C7 amended: with several referencing skills, the skill whose MaxLevel
\* equals the value count is selected (ReverseRef_LengthMatch) when exactly
\* one candidate matches; when none or more than one matches, the first
\* (smallest-id) candidate is used and the method is
\* ReverseRef_Ambiguous_TakeFirst
C7_LengthMatch ==
    (/\ call.op = "_infer_bind_skill_for_hitdamage"
     /\ Cardinality(ReferencingIds(call.identifier)) >= 2) =>
        IF Cardinality(LengthMatches(call.identifier, call.values_count)) = 1
        THEN /\ ret.sid.i \in LengthMatches(call.identifier, call.values_count)
             /\ ret.method = "ReverseRef_LengthMatch"
        ELSE /\ ret.sid = VInt(MinOf(ReferencingIds(call.identifier)))
             /\ ret.method = "ReverseRef_Ambiguous_TakeFirst"

\* C7 witness: two candidates match the length and the one selected, the
\* first candidate, does not
C7_Witness ==
    /\ call.op = "_infer_bind_skill_for_hitdamage"
    /\ Cardinality(LengthMatches(call.identifier, call.values_count)) = 2
    /\ ret.sid.i \notin LengthMatches(call.identifier, call.values_count)
    /\ ret.method = "ReverseRef_Ambiguous_TakeFirst"

\* C7 witness of the length match proper
C7_WitnessMatch ==
    /\ call.op = "_infer_bind_skill_for_hitdamage"
    /\ Cardinality(ReferencingIds(call.identifier)) = 3
    /\ LengthMatches(call.identifier, call.values_count) = {2}
    /\ ret.sid = VInt(2)
    /\ ret.method = "ReverseRef_LengthMatch"

FiveMethods ==
    { "ExplicitLevelData", "ReverseRef_Single", "ReverseRef_LengthMatch",
      "ReverseRef_Ambiguous_TakeFirst", "NoLevelData_NoReverseRef" }

FallbackMethods ==
    { "ReverseRef_Single_FallbackFromExplicitNonSkill",
      "ReverseRef_LengthMatch_FallbackFromExplicitNonSkill",
      "ReverseRef_Ambiguous_TakeFirst_FallbackFromExplicitNonSkill" }

\* C8 as stated: Bind.Method is one of the five outcomes and nothing else
C8_Original ==
    (IsHitDamageCall /\ HasPayload) => ret.Resolved.Bind.Method \in FiveMethods

\* C8 amended: Bind.Method is one of the five outcomes or one of the three
\* reverse-lookup outcomes with the suffix _FallbackFromExplicitNonSkill
\* (emitted when an explicit linkage names no skill and a skill is
\* inferred); no other value is emitted
C8_MethodAnnotated ==
    (IsHitDamageCall /\ HasPayload) =>
        ret.Resolved.Bind.Method \in FiveMethods \cup FallbackMethods

\* C8 witness: an explicit linkage naming no skill, several candidates
C8_Witness ==
    /\ IsHitDamageCall
    /\ HasPayload
    /\ ret.Resolved.Bind.Method = "ReverseRef_Ambiguous_TakeFirst_FallbackFromExplicitNonSkill"

KnownTables ==
    { S_HitDamage, S_BuffValue, S_EffectValue, S_Effect, S_OnceAdditionalAttributeValue,
      S_OnceAdditionalAttribute }

\* C10: an expression of at least 3 tokens whose first token is no known
\* table name resolves to Table = first token, Mode = second token and a
\* null Resolved
C10_UnknownTable ==
    (/\ call.op = "resolve_param"
     /\ Len(Split(call.param_str.s)) >= 3
     /\ Split(call.param_str.s)[1] \notin KnownTables) =>
        /\ ret.Source = call.param_str
        /\ ret.Table = VStr(Split(call.param_str.s)[1])
        /\ ret.Mode = VStr(Split(call.param_str.s)[2])
        /\ ret.Resolved = None

\* C10 witness: "Foo,Bar,1"
C10_Witness ==
    /\ call.op = "resolve_param"
    /\ call.param_str = VStr(<<"F", "o", "o", ",", "B", "a", "r", ",", "1">>)
    /\ ret.Table = VStr(S_Foo)
    /\ ret.Mode = VStr(S_Bar)
    /\ ret.Resolved = None

(***************************************************************************)
(* Properties of the table/mode dispatch.                                  *)
(***************************************************************************)
\* the call in progress is resolve_param
IsResolveCall == call.op = "resolve_param"

\* the tokens of the expression of the call
CallParts == Split(call.param_str.s)

\* the (Table, Mode) pairs the resolver lists
ListedCombos ==
    { <<S_HitDamage, S_DamageNum>>, <<S_BuffValue, S_NoLevel>>, <<S_EffectValue, S_NoLevel>>,
      <<S_Effect, S_LevelUp>>, <<S_OnceAdditionalAttribute, S_LevelUp>>,
      <<S_OnceAdditionalAttributeValue, S_NoLevel>> }

\* C11: an expression of at least 3 tokens whose (Table, Mode) pair is not
\* a listed combination resolves to the parsed Table and Mode with a null
\* Resolved, also when the table is known and holds the identifier
C11_Original ==
    (/\ IsResolveCall
     /\ Len(CallParts) >= 3
     /\ <<CallParts[1], CallParts[2]>> \notin ListedCombos) =>
        /\ ret.Table = VStr(CallParts[1])
        /\ ret.Mode = VStr(CallParts[2])
        /\ ret.Resolved = None

\* C12 as stated: with fewer than 3 tokens Resolved is null and Source the
\* input, and the two tokens of a two-token input are reported as Table and
\* Mode
C12_Original ==
    (IsResolveCall /\ Len(CallParts) < 3) =>
        /\ ret.Source = call.param_str
        /\ ret.Resolved = None
        /\ Len(CallParts) = 2 =>
             (ret.Table = VStr(CallParts[1]) /\ ret.Mode = VStr(CallParts[2]))

\* C12 amended: with fewer than 3 tokens (the empty string included)
\* resolve_param returns Source = the input, a null Resolved and a null
\* Table and Mode: no token is reported, the two of a two-token input
\* neither
C12_ShortExpr ==
    (IsResolveCall /\ Len(CallParts) < 3) => ret = ResultInit(call.param_str)

\* C12 witness: "Foo,Bar"
C12_Witness ==
    /\ IsResolveCall
    /\ CallParts = <<S_Foo, S_Bar>>
    /\ ret.Source = call.param_str
    /\ ret.Table = None
    /\ ret.Mode = None
    /\ ret.Resolved = None

\* the level-1 key of the family of id is not in the dataset (or id is too
\* short to have a family)
NoLevelOne(id, dataset) == Len(id) < 3 \/ ClaimLevelKey(id, 1) \notin DOMAIN dataset

\* the call names a supported Table/Mode and its identifier is not found in
\* the target table
IdNotFound ==
    LET tb == CallParts[1]
        md == CallParts[2]
        id == CallParts[3]
    IN \/ tb = S_HitDamage /\ md = S_DamageNum /\ id \notin DOMAIN HIT_DAMAGE_DATA
       \/ tb = S_BuffValue /\ id \notin DOMAIN BUFF_VALUE_DATA
       \/ tb = S_EffectValue /\ id \notin DOMAIN EFFECT_VALUE_DATA
       \/ tb = S_OnceAdditionalAttributeValue /\ md = S_NoLevel
            /\ id \notin DOMAIN ONCE_ADD_ATTR_VALUE_DATA
       \/ tb = S_Effect /\ md = S_LevelUp /\ NoLevelOne(id, EFFECT_VALUE_DATA)
       \/ tb = S_OnceAdditionalAttribute /\ md = S_LevelUp
            /\ NoLevelOne(id, ONCE_ADD_ATTR_VALUE_DATA)

\* a payload that is null, or holds no level and no record
IsEmptyPayload(r) ==
    \/ r = None
    \/ /\ "Levels" \in DOMAIN r
       /\ r.Levels = <<>>
       /\ "Effect" \in DOMAIN r => r.Effect = None

\* C13 as stated: a supported Table/Mode whose identifier is not found gives
\* the empty/null payload
C13_Original ==
    (IsResolveCall /\ Len(CallParts) >= 3 /\ IdNotFound) => IsEmptyPayload(ret.Resolved)

\* C13 amended: when the identifier is not found, HitDamage+DamageNum,
\* BuffValue, EffectValue and OnceAdditionalAttributeValue+NoLevel give a
\* null Resolved; OnceAdditionalAttribute+LevelUp gives the payload
\* {Levels: []}; Effect+LevelUp gives {Effect: e, Levels: []} with e the
\* record of the identifier in the Effect table (null when it has none)
C13_MissingId ==
    (IsResolveCall /\ Len(CallParts) >= 3 /\ IdNotFound) =>
        /\ ret.Table = VStr(CallParts[1])
        /\ ret.Mode = VStr(CallParts[2])
        /\ ret.Resolved =
             IF CallParts[1] = S_Effect
             THEN [t |-> "dict", Effect |-> TableGet(EFFECT_DATA, CallParts[3]),
                   Levels |-> <<>>]
             ELSE IF CallParts[1] = S_OnceAdditionalAttribute
             THEN [t |-> "dict", Levels |-> <<>>]
             ELSE None

\* C13 witness: Effect,LevelUp on an identifier the Effect table holds while
\* EffectValue has no level-1 key for it
C13_Witness ==
    /\ IsResolveCall
    /\ Len(CallParts) >= 3
    /\ CallParts[1] = S_Effect
    /\ CallParts[2] = S_LevelUp
    /\ CallParts[3] = S_144101
    /\ NoLevelOne(S_144101, EFFECT_VALUE_DATA)
    /\ ret.Resolved.Levels = <<>>
    /\ ret.Resolved.Effect = VDict(EFFECT_DATA[S_144101])

\* C13 witness of the null payload: BuffValue on an identifier it lacks
C13_WitnessNull ==
    /\ IsResolveCall
    /\ Len(CallParts) >= 3
    /\ CallParts[1] = S_BuffValue
    /\ CallParts[3] \notin DOMAIN BUFF_VALUE_DATA
    /\ ret.Resolved = None

(***************************************************************************)
(* Properties of the field/transform/enum logic.                           *)
(***************************************************************************)
\* the field-results of the trailing tokens toks over the record rec, read
\* left to right: a field followed by Enum and a name gives an enum result
\* (an empty name too when emptyName), a field followed by another token a
\* numeric result under that token, a last field a numeric result under no
\* transform
RECURSIVE ClaimFields(_, _, _)
ClaimFields(toks, rec, emptyName) ==
    IF toks = <<>> THEN <<>>
    ELSE LET field == toks[1]
             value == DictGet(rec, field)
             rest(n) == SubSeq(toks, Min(n, Len(toks)) + 1, Len(toks))
         IN IF Len(toks) >= 3 /\ toks[2] = S_Enum /\ (emptyName \/ toks[3] # <<>>)
            THEN << [Field |-> field, EnumName |-> VStr(toks[3]), Raw |-> value,
                     Text |-> resolve_enum_text(VStr(toks[3]), value)] >>
                 \o ClaimFields(rest(3), rec, emptyName)
            ELSE IF Len(toks) >= 2 /\ toks[2] = S_Enum
            THEN << [Field |-> field,
                     Value |-> apply_numeric_transform(value, VStr(S_Enum))] >>
                 \o ClaimFields(rest(3), rec, emptyName)
            ELSE IF Len(toks) >= 2
            THEN << [Field |-> field,
                     Value |-> apply_numeric_transform(value, VStr(toks[2]))] >>
                 \o ClaimFields(rest(2), rec, emptyName)
            ELSE << [Field |-> field, Value |-> apply_numeric_transform(value, None)] >>

\* the tokens after Table, Mode, Identifier
CallFieldTokens == SubSeq(CallParts, 4, Len(CallParts))

\* the call is a BuffValue or EffectValue expression; its table
IsValueCall ==
    IsResolveCall /\ Len(CallParts) >= 3 /\ CallParts[1] \in {S_BuffValue, S_EffectValue}

ValueTable == IF CallParts[1] = S_BuffValue THEN BUFF_VALUE_DATA ELSE EFFECT_VALUE_DATA

\* C14 as stated: for a BuffValue or EffectValue (no level) expression whose
\* record exists, Fields holds one field-result per field token in order, an enum
\* result for a field followed by Enum,<Name> and a numeric result otherwise
C14_Original ==
    (IsValueCall /\ CallParts[2] = S_NoLevel /\ CallParts[3] \in DOMAIN ValueTable) =>
        /\ ret.Resolved # None
        /\ ret.Resolved.Fields = ClaimFields(CallFieldTokens, ValueTable[CallParts[3]], TRUE)

\* C14 amended: for a BuffValue or EffectValue expression whose record
\* exists and is not empty, Resolved.Entry is the record and Fields holds
\* one field-result per field token in order: {Field, EnumName, Raw, Text}
\* with Text = resolve_enum_text(Name, record[field]) for a field followed
\* by Enum and a non-empty Name, and {Field, Value} with Value =
\* apply_numeric_transform(record[field], following token) otherwise, also
\* for a field followed by Enum and an empty or missing name (the name token
\* is consumed); a last field has the absent transform
C14_FieldResults ==
    (/\ IsValueCall
     /\ CallParts[3] \in DOMAIN ValueTable
     /\ DOMAIN ValueTable[CallParts[3]] # {}) =>
        /\ ret.Resolved # None
        /\ ret.Resolved.Entry = VDict(ValueTable[CallParts[3]])
        /\ ret.Resolved.Fields = ClaimFields(CallFieldTokens, ValueTable[CallParts[3]], FALSE)

\* C14 witness: BuffValue,NoLevel,4021,Time,HdPct,Type,Enum,ELT,Name
C14_Witness ==
    /\ IsValueCall
    /\ CallParts = <<S_BuffValue, S_NoLevel, S_4021, S_Time, S_HdPct, S_Type, S_Enum, S_ELT,
                     S_Name>>
    /\ Len(ret.Resolved.Fields) = 3
    /\ ret.Resolved.Fields[1].Value.Converted = [t |-> "float", num |-> 10000000, den |-> 1]
    /\ ret.Resolved.Fields[2].EnumName = VStr(S_ELT)
    /\ ret.Resolved.Fields[2].Text = VStr(<<"l", "v">>)
    /\ ret.Resolved.Fields[3].Value.Transform = None

\* C14 witness of the empty enum name: ...,Type,Enum, gives a numeric result
C14_WitnessEmptyName ==
    /\ IsValueCall
    /\ CallFieldTokens = <<S_Type, S_Enum, <<>> >>
    /\ ret.Resolved # None
    /\ Len(ret.Resolved.Fields) = 1
    /\ ret.Resolved.Fields[1].Value.Transform = VStr(S_Enum)
    /\ ret.Resolved.Fields[1].Value.Converted = None

\* the call is Effect,LevelUp or OnceAdditionalAttribute,LevelUp; its
\* per-value table
IsLevelUpCall ==
    /\ IsResolveCall
    /\ Len(CallParts) >= 3
    /\ CallParts[1] \in {S_Effect, S_OnceAdditionalAttribute}
    /\ CallParts[2] = S_LevelUp

LevelUpTable ==
    IF CallParts[1] = S_Effect THEN EFFECT_VALUE_DATA ELSE ONCE_ADD_ATTR_VALUE_DATA

\* C15: for Effect,LevelUp (against EffectValue) and
\* OnceAdditionalAttribute,LevelUp (against OnceAdditionalAttributeValue)
\* Resolved.Levels has one element per pair of
\* build_level_entries(identifier, table, context_max_level), in the same
\* order with the same Level, and each element's Fields is what the
\* no-level field logic gives for that level's record alone
C15_LevelUpPerLevel ==
    IsLevelUpCall =>
        LET entries == build_level_entries(VStr(CallParts[3]), LevelUpTable,
                                           call.context_max_level)
            levels == ret.Resolved.Levels
        IN /\ Len(levels) = Len(entries)
           /\ \A k \in 1..Len(entries) :
                /\ levels[k].Level = entries[k][1]
                /\ levels[k].Fields = FieldLoop_BuffValue(CallParts, entries[k][2].d, 3, <<>>)

\* C15 witness: OnceAdditionalAttribute,LevelUp,2001,Time,10K capped at 2
C15_Witness ==
    /\ IsLevelUpCall
    /\ CallParts = <<S_OnceAdditionalAttribute, S_LevelUp, S_2001, S_Time, S_10K>>
    /\ call.context_max_level = VInt(2)
    /\ Len(ret.Resolved.Levels) = 2
    /\ ret.Resolved.Levels[2].Level = 2
    /\ Len(ret.Resolved.Levels[2].Fields) = 1
    /\ ret.Resolved.Levels[2].Fields[1].Value.Converted = [t |-> "float", num |-> 1, den |-> 5]

\* the five copies of the field loop give `fields` for the record rec
AllCopiesGive(parts, rec, fields) ==
    /\ fields = FieldLoop_BuffValue(parts, rec, 3, <<>>)
    /\ fields = FieldLoop_EffectValue(parts, rec, 3, <<>>)
    /\ fields = FieldLoop_OnceAddValue(parts, rec, 3, <<>>)
    /\ fields = FieldLoop_EffectLevelUp(parts, rec, 3, <<>>)
    /\ fields = FieldLoop_OnceAddLevelUp(parts, rec, 3, <<>>)

\* the call is BuffValue, EffectValue or OnceAdditionalAttributeValue,NoLevel
\* and resolved a record
IsNoLevelPayload ==
    /\ IsResolveCall
    /\ Len(CallParts) >= 3
    /\ \/ CallParts[1] \in {S_BuffValue, S_EffectValue}
       \/ CallParts[1] = S_OnceAdditionalAttributeValue /\ CallParts[2] = S_NoLevel
    /\ ret.Resolved # None

\* C16: the copies of the field/transform parsing are equivalent: the
\* Fields a no-level branch produces for a record and trailing tokens is the
\* list every other copy produces for that record and those tokens, and so
\* is the Fields of each level of the LevelUp branches
C16_CopiesEquivalent ==
    /\ IsNoLevelPayload =>
         AllCopiesGive(CallParts, ret.Resolved.Entry.d, ret.Resolved.Fields)
    /\ IsLevelUpCall =>
         \A k \in 1..Len(ret.Resolved.Levels) :
             AllCopiesGive(CallParts,
                           LevelUpTable[ClaimLevelKey(CallParts[3], ret.Resolved.Levels[k].Level)],
                           ret.Resolved.Levels[k].Fields)

\* C16 witness: OnceAdditionalAttributeValue,NoLevel,4021 with a numeric
\* field, an enum field and a last field without transform
C16_Witness ==
    /\ IsNoLevelPayload
    /\ CallParts = <<S_OnceAdditionalAttributeValue, S_NoLevel, S_4021, S_Time, S_HdPct, S_Type,
                     S_Enum, S_ELT, S_Name>>
    /\ Len(ret.Resolved.Fields) = 3
    /\ ret.Resolved.Fields[1].Value.Converted = [t |-> "float", num |-> 500, den |-> 1]
    /\ ret.Resolved.Fields[3].Value.Transform = None


(***************************************************************************)
(* load_json and the cache.                                                *)
(***************************************************************************)
\* a step that is a call of load_json
IsLoadStep == call = Idle /\ call'.op = "load_json"

\* C18: over any sequence of load_json calls each path's file is read at most
\* once: a successful call for a path not yet cached reads the file once and
\* caches what it read, a call for a cached path returns the cached object
\* without reading, and an entry of the cache is never replaced or removed,
\* whatever happens to the file in between
C18_ReadOnce ==
    [][ /\ \A path \in DOMAIN JSON_CACHE :
              path \in DOMAIN JSON_CACHE' /\ JSON_CACHE'[path] = JSON_CACHE[path]
        /\ \A path \in LoadPaths : reads'[path] <= 1
        /\ IsLoadStep =>
              IF call'.path \in DOMAIN JSON_CACHE
              THEN /\ ret' = [value |-> JSON_CACHE[call'.path]]
                   /\ reads' = reads
                   /\ JSON_CACHE' = JSON_CACHE
              ELSE ~IsRaised(ret') =>
                       /\ reads'[call'.path] = reads[call'.path] + 1
                       /\ ret' = [value |-> files[call'.path].content]
                       /\ DOMAIN JSON_CACHE' = DOMAIN JSON_CACHE \cup {call'.path}
                       /\ JSON_CACHE'[call'.path] = files[call'.path].content
      ]_vars

\* a second call for a path whose file was replaced after the first: the
\* object of the first load comes back and the file was read once
C18_Witness ==
    /\ call.op = "load_json"
    /\ call.path \in DOMAIN JSON_CACHE
    /\ files[call.path].kind = "json"
    /\ files[call.path].content # JSON_CACHE[call.path]
    /\ ret = [value |-> JSON_CACHE[call.path]]
    /\ reads[call.path] = 1

\* C19: load_json that has to read the file (the path is not cached) and finds
\* it missing or not well-formed raises, the cache is left exactly as it was
\* (no entry for the path, the other entries unchanged), and nothing follows
\* the raise: no retry, the run is over
C19_LoadFails ==
    [][ /\ ( /\ IsLoadStep
             /\ call'.path \notin DOMAIN JSON_CACHE
             /\ files[call'.path].kind \in {"missing", "malformed"} )
           => /\ IsRaised(ret')
              /\ JSON_CACHE' = JSON_CACHE
              /\ call'.path \notin DOMAIN JSON_CACHE'
        /\ ~IsRaised(ret)
      ]_vars

\* a load raised on a malformed file while another path was already cached
C19_Witness ==
    /\ call.op = "load_json"
    /\ IsRaised(ret)
    /\ files[call.path].kind = "malformed"
    /\ call.path \notin DOMAIN JSON_CACHE
    /\ JSON_CACHE # <<>>

\* a load raised on a missing file
C19_WitnessMissing ==
    /\ call.op = "load_json"
    /\ IsRaised(ret)
    /\ files[call.path].kind = "missing"
    /\ call.path \notin DOMAIN JSON_CACHE

(***************************************************************************)
(* Frame and history of the resolver.                                      *)
(***************************************************************************)
\* C20: no call of resolve_param, build_level_entries, resolve_enum_text or
\* _infer_bind_skill_for_hitdamage changes a loaded table, the JSON cache or
\* the reverse index, lookups of absent identifiers included
C20_ReadOnly ==
    [][ call'.op \in {"resolve_param", "build_level_entries", "resolve_enum_text",
                      "_infer_bind_skill_for_hitdamage"}
        => /\ tables' = tables
           /\ JSON_CACHE' = JSON_CACHE
           /\ HITDAMAGE_TO_SKILLS' = HITDAMAGE_TO_SKILLS
      ]_vars

\* the reverse index was asked for an identifier it does not hold and is
\* still the index built at startup
C20_Witness ==
    /\ call.op = "_infer_bind_skill_for_hitdamage"
    /\ call.identifier \notin DOMAIN HITDAMAGE_TO_SKILLS
    /\ HITDAMAGE_TO_SKILLS = build_hitdamage_reverse_index(SKILL_DATA)
    /\ JSON_CACHE = LoadedFiles(HIT_DAMAGE_DATA, SKILL_DATA, EFFECT_VALUE_DATA)

IsEnumCall == call.op = "resolve_enum_text"

\* positions of the EnumDesc entries of family enum_name and value value_int
EnumMatches(enum_name, value_int) ==
    { k \in 1..Len(ENUM_DESC_DATA) :
        /\ PyEq(DictGet(ENUM_DESC_DATA[k], S_EnumName), enum_name)
        /\ PyEq(DictGet(ENUM_DESC_DATA[k], S_Value), VInt(value_int)) }

\* the text UIText.<Key>.1 of the entry at position k, None when there is none
EnumTextAt(k) ==
    DictGet(UITEXT_LANG, S_UITextDot \o py_str(DictGet(ENUM_DESC_DATA[k], S_Key)) \o S_Dot1)

\* C21: resolve_enum_text(enum_name, raw) returns None when int(raw) raises and
\* when no EnumDesc entry has EnumName = enum_name and Value = int(raw); when
\* entries match, it returns the UIText.<Key>.1 text of the matching entry
\* the scan stops at, the first one that has a Key (None when none has)
C21_EnumText ==
    IsEnumCall =>
        LET c == py_int(call.raw_value)
            matches == EnumMatches(call.enum_name, c.i)
            keyed == { k \in matches : Truthy(DictGet(ENUM_DESC_DATA[k], S_Key)) }
        IN IF c.exc # "" THEN ret = None
           ELSE IF matches = {} THEN ret = None
           ELSE IF keyed = {} THEN ret = None
           ELSE ret = EnumTextAt(CHOOSE k \in keyed : \A j \in keyed : k <= j)

\* a value that is not an int (a string of digits, a float) was coerced and
\* matched two entries, the first of them without a Key, and the text of the
\* second came back
C21_Witness ==
    /\ IsEnumCall
    /\ call.raw_value.t \in {"str", "float"}
    /\ py_int(call.raw_value).exc = ""
    /\ Cardinality(EnumMatches(call.enum_name, py_int(call.raw_value).i)) = 2
    /\ ret # None
    /\ ret = EnumTextAt(3)

\* the raw value is no integer and nothing came back
C21_WitnessNoInt ==
    /\ IsEnumCall
    /\ py_int(call.raw_value).exc # ""
    /\ ret = None

(***************************************************************************)
(* The reverse index.                                                      *)
(***************************************************************************)
\* skill record `skill` holds, in Param<i>, a string beginning
\* HitDamage,DamageNum, whose third token is h
ParamRefersTo(skill, i, h) ==
    LET v == DictGet(skill, ParamKey(i))
    IN /\ v.t = "str"
       /\ Len(v.s) >= Len(S_HitDamageCommaDamageNumComma)
       /\ SubSeq(v.s, 1, Len(S_HitDamageCommaDamageNumComma)) = S_HitDamageCommaDamageNumComma
       /\ Split(v.s)[3] = h

\* the integer-keyed skills referencing h in one of Param1..Param15
SkillsReferring(h) ==
    { ParseInt(sid_str).i :
        sid_str \in { k \in DOMAIN SKILL_DATA :
                        /\ ParseInt(k).ok
                        /\ \E i \in 1..15 : ParamRefersTo(SKILL_DATA[k], i, h) } }

\* C22: after the startup build the reverse index maps HitDamage id h to
\* exactly the integer-keyed skills with a Param1..Param15 string beginning
\* HitDamage,DamageNum, and third token h, and holds no other id
C22_ReverseIndex ==
    \A h \in DOMAIN HITDAMAGE_TO_SKILLS \cup {S_71, S_72, S_73} :
        IF SkillsReferring(h) = {}
        THEN h \notin DOMAIN HITDAMAGE_TO_SKILLS
        ELSE /\ h \in DOMAIN HITDAMAGE_TO_SKILLS
             /\ HITDAMAGE_TO_SKILLS[h] = SkillsReferring(h)

\* skill 1 names 71 twice and is listed once, the skill under a key that is no
\* integer names 71 and is not listed, 73 is named only by a Param16
C22_Witness ==
    /\ <<"x", "7">> \in DOMAIN SKILL_DATA
    /\ ParamRefersTo(SKILL_DATA[<<"x", "7">>], 1, S_71)
    /\ ParamRefersTo(SKILL_DATA[<<"1">>], 1, S_71)
    /\ ParamRefersTo(SKILL_DATA[<<"1">>], 15, S_71)
    /\ ParamRefersTo(SKILL_DATA[<<"3">>], 16, S_73)
    /\ S_71 \in DOMAIN HITDAMAGE_TO_SKILLS
    /\ HITDAMAGE_TO_SKILLS[S_71] = {1}
    /\ S_73 \notin DOMAIN HITDAMAGE_TO_SKILLS

(***************************************************************************)
(* _infer_bind_skill_for_hitdamage.                                        *)
(***************************************************************************)
IsInferCall == call.op = "_infer_bind_skill_for_hitdamage"

\* C23: Candidates is the ascending list of all skills referencing the
\* identifier; with no candidate no skill is returned, the list is empty and
\* the method is NoLevelData_NoReverseRef; otherwise the skill selected is in
\* Candidates and is the sole candidate, else the sole candidate whose
\* MaxLevel equals the value count, else the smallest id
C23_InferSelection ==
    IsInferCall =>
        LET refs == SkillsReferring(call.identifier)
            cands == ret.candidates
            lm == { c \in refs :
                      PyEq(DictGet(TableGet(SKILL_DATA, IntToStr(c)).d, S_MaxLevel),
                           VInt(call.values_count)) }
        IN /\ { cands[k] : k \in 1..Len(cands) } = refs
           /\ \A k \in 1..(Len(cands) - 1) : cands[k] < cands[k + 1]
           /\ IF refs = {}
              THEN /\ ret.sid = None
                   /\ cands = <<>>
                   /\ ret.method = "NoLevelData_NoReverseRef"
              ELSE /\ ret.sid.t = "int"
                   /\ ret.sid.i \in refs
                   /\ IF Cardinality(refs) = 1 THEN {ret.sid.i} = refs
                      ELSE IF Cardinality(lm) = 1 THEN {ret.sid.i} = lm
                      ELSE \A c \in refs : ret.sid.i <= c

\* three candidates none of which has the value count as MaxLevel: the
\* smallest is selected and all three are listed in order
C23_Witness ==
    /\ IsInferCall
    /\ ret.candidates = <<1, 2, 3>>
    /\ \A c \in 1..3 : DictGet(SKILL_DATA[IntToStr(c)], S_MaxLevel) # VInt(call.values_count)
    /\ ret.sid = VInt(1)

\* no skill references the identifier
C23_WitnessNone ==
    /\ IsInferCall
    /\ SkillsReferring(call.identifier) = {}
    /\ ret.sid = None
    /\ ret.candidates = <<>>

(***************************************************************************)
(* Bind.Method of the HitDamage branch.                                    *)
(***************************************************************************)
\* C24: Bind.Method of a HitDamage payload is never the default NoBindInfo;
\* and when the record's explicit linkage names no skill, the method is the
\* reverse-lookup method with the suffix _FallbackFromExplicitNonSkill and
\* Bind.LevelData the inferred skill id if a skill references the id, else
\* NoLevelData_NoReverseRef with Bind.LevelData the explicit value
C24_MethodSet ==
    (IsHitDamageCall /\ HasPayload) =>
        LET b == ret.Resolved.Bind
            expl == ExplicitLinkage(CallRecord)
        IN /\ b.Method # "NoBindInfo"
           /\ b.Method # ""
           /\ (expl # None /\ ~NamesSkill(expl)) =>
                 IF SkillsReferring(CallId) # {}
                 THEN /\ \E m \in {"ReverseRef_Single", "ReverseRef_LengthMatch",
                                   "ReverseRef_Ambiguous_TakeFirst"} :
                            b.Method = m \o "_FallbackFromExplicitNonSkill"
                      /\ b.LevelData.t = "int"
                      /\ b.LevelData.i \in SkillsReferring(CallId)
                 ELSE /\ b.Method = "NoLevelData_NoReverseRef"
                      /\ b.LevelData = expl

\* an explicit linkage naming no skill, and a skill inferred in its place
C24_Witness ==
    /\ IsHitDamageCall
    /\ HasPayload
    /\ ExplicitLinkage(CallRecord) = VInt(9)
    /\ ~NamesSkill(VInt(9))
    /\ ret.Resolved.Bind.Method = "ReverseRef_LengthMatch_FallbackFromExplicitNonSkill"
    /\ ret.Resolved.Bind.LevelData \in {VInt(1), VInt(2), VInt(3)}

\* an explicit linkage naming no skill and no skill to infer: the explicit
\* value stays
C24_WitnessNoRef ==
    /\ IsHitDamageCall
    /\ HasPayload
    /\ ExplicitLinkage(CallRecord) = VInt(9)
    /\ SkillsReferring(CallId) = {}
    /\ ret.Resolved.Bind.Method = "NoLevelData_NoReverseRef"
    /\ ret.Resolved.Bind.LevelData = VInt(9)

(***************************************************************************)
(* The field-token loop.                                                   *)
(***************************************************************************)
\* the sizes of the groups the tokens after the identifier fall into, left to
\* right: field, Enum and a name (3), a field and the token after it (2), a
\* last field alone (1)
RECURSIVE GroupSizes(_)
GroupSizes(toks) ==
    IF toks = <<>> THEN <<>>
    ELSE LET n == IF Len(toks) >= 3 /\ toks[2] = S_Enum THEN 3
                  ELSE IF Len(toks) >= 2 THEN 2 ELSE 1
         IN <<n>> \o GroupSizes(SubSeq(toks, n + 1, Len(toks)))

\* the index (0-based) of the first token of group k
RECURSIVE GroupStart(_, _)
GroupStart(sizes, k) == IF k = 1 THEN 3 ELSE GroupStart(sizes, k - 1) + sizes[k - 1]

\* `fields` is one result per group of the tokens of the call, each built
\* from the tokens of its own group
OnePerGroup(fields) ==
    LET sizes == GroupSizes(CallFieldTokens)
    IN /\ Len(fields) = Len(sizes)
       /\ \A k \in 1..Len(sizes) :
            LET at == GroupStart(sizes, k)
            IN /\ fields[k].Field = CallParts[at + 1]
               /\ IF sizes[k] = 3 /\ CallParts[at + 3] # <<>>
                  THEN fields[k].EnumName = VStr(CallParts[at + 3])
                  ELSE IF sizes[k] >= 2
                  THEN fields[k].Value.Transform = VStr(CallParts[at + 2])
                  ELSE fields[k].Value.Transform = None

\* C25: the field loop ends on every token list; its index starts at 3, is the
\* start of the next group at every test, so it grows by the size of the
\* group just read (by 3 after a last field,Enum pair), the groups cover the
\* tokens from index 3 on without overlap, and Fields holds one result per
\* group in order
C25_LoopGroups ==
    (IsResolveCall /\ Len(CallParts) >= 3) =>
        LET sizes == GroupSizes(CallFieldTokens)
            indexes == FieldLoopIndexes(CallParts, 3)
            n == Len(sizes)
        IN /\ Len(indexes) = n + 1
           /\ \A k \in 1..n :
                /\ indexes[k] = GroupStart(sizes, k)
                /\ indexes[k] < Len(CallParts)
                /\ indexes[k] < indexes[k + 1]
                /\ indexes[k + 1] - indexes[k] \in {sizes[k], 3}
           /\ indexes[n + 1] >= Len(CallParts)
           /\ GroupStart(sizes, n + 1) = Len(CallParts)
           /\ IsNoLevelPayload => OnePerGroup(ret.Resolved.Fields)
           /\ IsLevelUpCall =>
                \A k \in 1..Len(ret.Resolved.Levels) : OnePerGroup(ret.Resolved.Levels[k].Fields)

\* EffectValue with six field tokens: a pair, an enum triple and a last field
C25_Witness ==
    /\ IsNoLevelPayload
    /\ CallParts[1] = S_EffectValue
    /\ CallFieldTokens = <<S_Time, S_HdPct, S_Type, S_Enum, S_ELT, S_Name>>
    /\ FieldLoopIndexes(CallParts, 3) = <<3, 5, 8, 9>>
    /\ Len(ret.Resolved.Fields) = 3
    /\ ret.Resolved.Fields[3].Field = S_Name

\* C26: when the expression ends with a field followed by Enum and nothing
\* after it, the last field-result is numeric, {Field, Value}, with Transform
\* "Enum", Converted null and Raw the record's value for the field (no
\* EnumName, no Text: the enum resolver is not consulted), and it is the last
\* group of the loop
C26_EnumWithoutName ==
    (/\ IsNoLevelPayload
     /\ Len(CallFieldTokens) >= 2
     /\ CallFieldTokens[Len(CallFieldTokens)] = S_Enum
     /\ GroupSizes(CallFieldTokens)[Len(GroupSizes(CallFieldTokens))] = 2) =>
        LET fields == ret.Resolved.Fields
            last == fields[Len(fields)]
            field == CallFieldTokens[Len(CallFieldTokens) - 1]
        IN /\ Len(fields) = Len(GroupSizes(CallFieldTokens))
           /\ DOMAIN last = {"Field", "Value"}
           /\ last.Field = field
           /\ last.Value.Transform = VStr(S_Enum)
           /\ last.Value.Converted = None
           /\ last.Value.Raw = DictGet(ret.Resolved.Entry.d, field)

\* BuffValue,NoLevel,4021,Type,Enum: the record's Type, which is a number,
\* comes back as Raw with no conversion
C26_Witness ==
    /\ IsNoLevelPayload
    /\ CallParts = <<S_BuffValue, S_NoLevel, S_4021, S_Type, S_Enum>>
    /\ Len(ret.Resolved.Fields) = 1
    /\ ret.Resolved.Fields[1].Value.Raw # None
    /\ ret.Resolved.Fields[1].Value.Converted = None
    /\ ret.Resolved.Fields[1].Value.Transform = VStr(S_Enum)

(***************************************************************************)
(* The cap of build_level_entries.                                         *)
(***************************************************************************)
\* C27: build_level_entries returns at most max_level entries when
\* max_level >= 1; for max_level <= 0 it returns exactly one entry, level 1,
\* when the level-1 key exists (the cap is tested after the append); with
\* max_level None the length is the number of consecutive present levels
\* from 1 on
C27_CapAfterAppend ==
    call.op = "build_level_entries" =>
        LET s == py_str(call.base_id)
            k == IF Len(s) >= 3 THEN ConsecutiveLevels(s, Dataset(call.dataset), 1) ELSE 0
            n == Len(ret.out)
        IN IF call.max_level = None THEN n = k
           ELSE IF call.max_level.i >= 1 THEN n <= call.max_level.i /\ n = Min(k, call.max_level.i)
           ELSE IF k >= 1 THEN n = 1 /\ ret.out[1][1] = 1
           ELSE n = 0

\* a negative cap over a family whose level 1 exists: one entry comes back
C27_Witness ==
    /\ call.op = "build_level_entries"
    /\ call.max_level = VInt(-1)
    /\ Len(py_str(call.base_id)) >= 3
    /\ ConsecutiveLevels(py_str(call.base_id), Dataset(call.dataset), 1) = MaxLevelKey
    /\ Len(ret.out) = 1
    /\ ret.out[1][1] = 1

\* a cap of 2 over a family of three levels
C27_WitnessCap ==
    /\ call.op = "build_level_entries"
    /\ call.max_level = VInt(2)
    /\ Len(py_str(call.base_id)) >= 3
    /\ ConsecutiveLevels(py_str(call.base_id), Dataset(call.dataset), 1) >= 3
    /\ Len(ret.out) = 2

(***************************************************************************)
(* The aggregate of analyze_hitdamage.                                     *)
(***************************************************************************)
\* the call returned a report
IsReport == call.op = "analyze_hitdamage" /\ ~IsRaised(ret)

\* the (levelTypeData, LevelData) combo an entry is counted under: for each
\* component the value under the first spelling present, as an int, None when
\* there is none or int() rejects it
EntryCombo(entry) ==
    LET first(k1, k2, k3) == IF k1 \in DOMAIN entry THEN entry[k1]
                             ELSE IF k2 \in DOMAIN entry THEN entry[k2]
                             ELSE IF k3 \in DOMAIN entry THEN entry[k3] ELSE None
        asInt(v) == IF v # None /\ py_int(v).exc = "" THEN VInt(py_int(v).i) ELSE None
    IN << asInt(first("levelTypeData", "LevelTypeData", "LevelType")),
          asInt(first("LevelData", "LevelId", "LevelID")) >>

\* the ids of the entries of the call counted under combo c, in input order
IdsUnder(c) ==
    LET under == SelectSeq(call.items, LAMBDA it : EntryCombo(it[2]) = c)
    IN [ k \in 1..Len(under) |->
           py_int(IF "Id" \in DOMAIN under[k][2] THEN under[k][2]["Id"]
                  ELSE VStr(under[k][1])).i ]

\* the sum of count over the combos of S
RECURSIVE SumCount(_)
SumCount(S) ==
    IF S = {} THEN 0
    ELSE LET c == CHOOSE x \in S : TRUE
         IN ret.combo_stats[c].count + SumCount(S \ {c})

\* the parts of the aggregate that do not depend on top_samples
CountsConsistent ==
    /\ ret.total = Len(call.items)
    /\ SumCount(DOMAIN ret.combo_stats) = ret.total
    /\ DOMAIN ret.combo_stats = { EntryCombo(call.items[k][2]) : k \in 1..Len(call.items) }
    /\ \A c \in DOMAIN ret.combo_stats :
         /\ ret.combo_stats[c].skillId_present + ret.combo_stats[c].skillId_absent
              = ret.combo_stats[c].count
         /\ ret.combo_stats[c].count = Len(IdsUnder(c))
    /\ ret.missing_levelTypeData
         = SumCount({ c \in DOMAIN ret.combo_stats : c[1] = None })
    /\ ret.missing_LevelData
         = SumCount({ c \in DOMAIN ret.combo_stats : c[2] = None })

\* C28: in the report the counts of the combos sum to total, present and
\* absent skill ids sum to count, the missing counters are the sums over the
\* combos with a None component, and every combo's sample ids are the first
\* min(count, top_samples) ids of the combo in input order
C28_Original ==
    IsReport =>
        /\ CountsConsistent
        /\ \A c \in DOMAIN ret.combo_stats :
             /\ Len(ret.combo_stats[c].ids) = Min(ret.combo_stats[c].count, call.top_samples)
             /\ ret.combo_stats[c].ids = SubSeq(IdsUnder(c), 1, Len(ret.combo_stats[c].ids))

\* C28 amended: as above, the sample ids of a combo being the first
\* min(count, max(top_samples, 0)) ids: a negative top_samples leaves every
\* sample list empty
C28_Aggregate ==
    IsReport =>
        /\ CountsConsistent
        /\ \A c \in DOMAIN ret.combo_stats :
             ret.combo_stats[c].ids
               = SubSeq(IdsUnder(c), 1,
                        Min(ret.combo_stats[c].count, Max(call.top_samples, 0)))

\* three entries under two combos, one of them without level type and level
\* data, one sample kept of the two entries of the other combo
C28_Witness ==
    /\ IsReport
    /\ Len(call.items) = 3
    /\ call.top_samples = 1
    /\ Cardinality(DOMAIN ret.combo_stats) = 2
    /\ <<None, None>> \in DOMAIN ret.combo_stats
    /\ ret.missing_levelTypeData = 1
    /\ \E c \in DOMAIN ret.combo_stats :
         ret.combo_stats[c].count = 2 /\ ret.combo_stats[c].ids = <<11>>

\* a negative top_samples: entries counted, no sample kept
C28_WitnessNegative ==
    /\ IsReport
    /\ call.top_samples = -1
    /\ ret.total = 2
    /\ \A c \in DOMAIN ret.combo_stats : ret.combo_stats[c].ids = <<>>

IsOptionsCall == call # Idle /\ call.op = "gather_options"

\* the NPCs of the call that have a first line for the option
OptionNpcs(o) ==
    { n \in 1..Len(call.npc_ids) :
        OptionKey(call.event_id, o, call.npc_ids[n], 1) \in DOMAIN call.option_data }

\* the first option index, counted from 1, for which no NPC has a first line
FirstMissingOption ==
    CHOOSE o \in 1..(Cardinality(DOMAIN call.option_data) + 1) :
        /\ OptionNpcs(o) = {}
        /\ \A p \in 1..(o - 1) : OptionNpcs(p) # {}

\* the place of an NPC in the list the call was given
NpcPlace(npc_id) == CHOOSE n \in 1..Len(call.npc_ids) : call.npc_ids[n] = npc_id

\* C29: gather_options always returns; its entries cover the option indices
\* 1..m with no gap, m + 1 being the first index no NPC has a line for, in
\* the order of the option index and then of the NPC list; each entry holds
\* the lines numbered 1..j of its option and NPC with line j + 1 missing, and
\* nothing at or after the first missing index is returned.
C29_GatherOptions ==
    IsOptionsCall =>
        LET r == ret.options
            d == call.option_data
            m == FirstMissingOption - 1
        IN /\ { r[k].option_index : k \in 1..Len(r) } = 1..m
           /\ \A o \in 1..m : \A n \in OptionNpcs(o) :
                \E k \in 1..Len(r) :
                    r[k].option_index = o /\ r[k].npc_id = call.npc_ids[n]
           /\ \A k \in 1..Len(r) :
                /\ \E n \in 1..Len(call.npc_ids) : call.npc_ids[n] = r[k].npc_id
                /\ Len(r[k].lines) >= 1
                /\ \A l \in 1..Len(r[k].lines) :
                     LET key == OptionKey(call.event_id, r[k].option_index, r[k].npc_id, l)
                     IN key \in DOMAIN d /\ r[k].lines[l] = d[key]
                /\ OptionKey(call.event_id, r[k].option_index, r[k].npc_id,
                             Len(r[k].lines) + 1) \notin DOMAIN d
           /\ \A k \in 1..Len(r), j \in 1..Len(r) :
                k < j =>
                    \/ r[k].option_index < r[j].option_index
                    \/ /\ r[k].option_index = r[j].option_index
                       /\ NpcPlace(r[k].npc_id) < NpcPlace(r[j].npc_id)

\* two NPCs answer the first option, the second option has two lines, and a
\* line past a missing line number is left out
C29_Witness ==
    /\ IsOptionsCall
    /\ Len(ret.options) >= 3
    /\ ret.options[1].option_index = 1 /\ ret.options[2].option_index = 1
    /\ ret.options[3].option_index = 2 /\ Len(ret.options[3].lines) = 2
    /\ Cardinality(DOMAIN call.option_data)
         > Len(ret.options[1].lines) + Len(ret.options[2].lines) + Len(ret.options[3].lines)

\* the third option has text but the second has none: only the first is returned
C29_WitnessGap ==
    /\ IsOptionsCall
    /\ OptionNpcs(1) # {} /\ OptionNpcs(2) = {} /\ OptionNpcs(3) # {}
    /\ \A k \in 1..Len(ret.options) : ret.options[k].option_index = 1
    /\ ret.options # <<>>

IsAttributeCall ==
    call # Idle /\ call.op = "gather_attribute_tables" /\ call.attribute_group_id # None

\* the places in the Attribute table of the entries of the call's group
GroupPlaces ==
    { k \in 1..Len(call.attribute_data) :
        py_str(call.attribute_data[k][<<"G", "r", "o", "u", "p", "I", "d">>])
          = py_str(call.attribute_group_id) }

\* the level of the entry at place k
EntryLevel(k) ==
    LET e == call.attribute_data[k]
    IN IF <<"l", "v", "l">> \in DOMAIN e THEN e[<<"l", "v", "l">>].i ELSE 0

\* the levels the group has entries for, and the levels a row is due for
PresentLevels == { EntryLevel(k) : k \in GroupPlaces }

DueLevels ==
    { l \in PresentLevels :
        \/ l = 1
        \/ l % 10 = 0
        \/ \A o \in PresentLevels : o <= l }

\* C30: for the entries of one attribute group, the rows are in strictly
\* ascending level order, there is a row for exactly the present levels that
\* are 1, the maximum, or divisible by 10, each row is built from the entry
\* of its level with the smallest Id whatever the order of the table, and a
\* group without entries gives the empty list.
C30_AttributeRows ==
    IsAttributeCall =>
        LET rows == ret.rows
        IN /\ ~IsRaised(ret)
           /\ \A k \in 1..(Len(rows) - 1) : rows[k].Level < rows[k + 1].Level
           /\ { rows[k].Level : k \in 1..Len(rows) } = DueLevels
           /\ \A k \in 1..Len(rows) :
                LET same == { p \in GroupPlaces : EntryLevel(p) = rows[k].Level }
                    least == CHOOSE p \in same :
                                 \A q \in same :
                                     call.attribute_data[p][<<"I", "d">>].i
                                       <= call.attribute_data[q][<<"I", "d">>].i
                IN rows[k].Stats
                     = << [Key |-> VStr(<<"A", "t", "k">>), JapaneseName |-> None,
                           Value |-> call.attribute_data[least][<<"A", "t", "k">>]] >>
           /\ GroupPlaces = {} => rows = <<>>

\* the group has the levels 1, 5 and 10: rows for 1 and 10 only
C30_Witness ==
    /\ IsAttributeCall
    /\ PresentLevels = {1, 5, 10}
    /\ Len(ret.rows) = 2
    /\ ret.rows[1].Level = 1 /\ ret.rows[2].Level = 10

\* two entries of one level, the smaller Id coming second in the table, and
\* no entry of level 1
C30_WitnessOrder ==
    /\ IsAttributeCall
    /\ 1 \notin PresentLevels
    /\ \E p \in GroupPlaces, q \in GroupPlaces :
         /\ p < q
         /\ EntryLevel(p) = EntryLevel(q)
         /\ call.attribute_data[q][<<"I", "d">>].i < call.attribute_data[p][<<"I", "d">>].i
         /\ \E k \in 1..Len(ret.rows) :
              /\ ret.rows[k].Level = EntryLevel(q)
              /\ ret.rows[k].Stats[1].Value = call.attribute_data[q][<<"A", "t", "k">>]

\* the group has no entry in a table that is not empty
C30_WitnessEmpty ==
    /\ IsAttributeCall
    /\ call.attribute_data # <<>>
    /\ GroupPlaces = {}
    /\ ret.rows = <<>>

====
